---- MODULE Spec2Model ----
(***************************************************************************)
(* NanoMail credential and sync engine (Keriyar/NanoMail).                 *)
(*                                                                         *)
(* Part 1, TokenManager (src/mail/gmail/token.rs) over GmailAccount        *)
(* (src/mail/gmail/types.rs), the token cipher (src/config/crypto.rs) and  *)
(* the account file (src/config/storage.rs): specification SpecToken.      *)
(* Part 2, the OAuth2 authorization flow (src/mail/gmail/oauth.rs):        *)
(* specification SpecAuth.                                                 *)
(* Part 3, the network probe and the periodic sync task (src/mail/gmail/   *)
(* api.rs, src/sync/mod.rs): specifications SpecSync and SpecSyncLive.     *)
(* Part 4, start, stop and request_stop of a SyncEngine (src/sync/mod.rs): *)
(* specification SpecEngine.                                               *)
(* Part 5, GmailAccount values and the account file (src/mail/gmail/       *)
(* types.rs, src/config/storage.rs): specification SpecGmail.              *)
(* Part 6, encrypt_token and decrypt_token on bytes (src/config/           *)
(* crypto.rs): specification SpecCrypto.                                   *)
(* Part 7, sync_now next to one cycle of the periodic task (src/sync/      *)
(* mod.rs): specification SpecOndemand.                                    *)
(* Part 8, the periodic task, sync_now and the authorization thread        *)
(* writing the account file concurrently (src/config/storage.rs, src/      *)
(* main.rs): specification SpecRace.                                       *)
(*                                                                         *)
(* Time is in seconds.  Plaintext access tokens are naturals: 0 is the     *)
(* token the account was created with, n > 0 the n-th token the token      *)
(* endpoint issued.  A Result<T> is a record [ok, val, err]: val is the    *)
(* set holding the value (empty for Err and for Ok(())), err the record    *)
(* [msg, cause] of the message and the text it carries.                    *)
(***************************************************************************)
EXTENDS Integers, Sequences, FiniteSets, TLC

VARIABLES
    now,          \* Utc::now(), seconds
    ticks,        \* number of clock advances so far (bounded by MaxTicks)
    tm_account,   \* TokenManager.account
    tm_pc,        \* position of the running TokenManager call: "idle" | "exchange"
    tm_op,        \* the running call: "none" | "get_valid_token" | "force_refresh"
    store,        \* content of accounts.toml: the sequence of stored records
    issued,       \* number of access tokens the token endpoint has issued
    call,         \* history of the current / last TokenManager call
    unsaved,      \* refresh whose persistence write failed and that is still current
    auth,         \* state of the authorization flow (Part 2)
    sync,         \* state of the SyncEngine and of its periodic task (Part 3)
    engine,       \* the running flag and the loop tasks of a SyncEngine (Part 4)
    gmail,        \* a GmailAccount value and the last operation on it (Part 5)
    crypto,       \* secrets under encryption and decryption (Part 6)
    ondemand,     \* sync_now and one cycle of the periodic task side by side (Part 7)
    race          \* tasks and threads that write the account file concurrently (Part 8)

tvars == <<now, ticks, tm_account, tm_pc, tm_op, store, issued, call, unsaved, sync,
          crypto, ondemand, race, gmail, engine>>
vars == <<now, ticks, tm_account, tm_pc, tm_op, store, issued, call, unsaved, auth, sync,
         crypto, ondemand, race, gmail, engine>>

----------------------------------------------------------------------------
(* Bounds *)

MaxTicks == 2
MaxIssued == 2
MaxCalls == 2

----------------------------------------------------------------------------
(* Results *)

NoError == [msg |-> "none", cause |-> "none"]

Ok(v) == [ok |-> TRUE, val |-> {v}, err |-> NoError]

OkUnit == [ok |-> TRUE, val |-> {}, err |-> NoError]

AErr(msg, cause) == [ok |-> FALSE, val |-> {}, err |-> [msg |-> msg, cause |-> cause]]

Err(msg) == AErr(msg, "none")

Val(r) == CHOOSE v \in r.val : TRUE

----------------------------------------------------------------------------
(* src/config/crypto.rs: an encrypted secret is the prefix plus the sealed *)
(* payload; the payload opens only under the key it was sealed with.       *)

ENCRYPTED_PREFIX == "encrypted:"

\* key derived from this machine's GUID (utils/machine_id.rs); a record
\* written on another machine is sealed under OtherKey
MachineKey == "this-machine"
OtherKey == "other-machine"

\* keyOk: derive_encryption_key() succeeded (the machine GUID was readable)
encrypt_token(plain, keyOk) ==
    IF ~keyOk THEN Err("key derivation")
    ELSE Ok([prefix |-> ENCRYPTED_PREFIX, key |-> MachineKey, plain |-> plain])

is_encrypted(s) == s.prefix = ENCRYPTED_PREFIX

decrypt_token(encrypted, keyOk) ==
    IF ~is_encrypted(encrypted) THEN Err("missing prefix")
    ELSE IF ~keyOk THEN Err("key derivation")
    ELSE IF encrypted.key # MachineKey THEN Err("AES-GCM open")
    ELSE Ok(encrypted.plain)

----------------------------------------------------------------------------
(* src/mail/gmail/types.rs: GmailAccount *)

SecondsPerMinute == 60

GmailAccount_new_Partial(email, display_name, access_token, refresh_token, expires_in_seconds, t, keyOk, keyOk2) ==
    LET ea == encrypt_token(access_token, keyOk)
        er == encrypt_token(refresh_token, keyOk2)
    IN  IF ~ea.ok THEN Err("encrypt access token")
        ELSE Ok([email |-> email, display_name |-> display_name,
                 access_token |-> Val(ea),
                 refresh_token |-> IF er.ok THEN Val(er)
                                   ELSE [prefix |-> "", key |-> "none", plain |-> refresh_token],
                 expires_at |-> t + expires_in_seconds, is_active |-> TRUE])

\* keyOk, keyOk2: the key derivation of the first and of the second encryption
GmailAccount_new(email, display_name, access_token, refresh_token, expires_in_seconds, t, keyOk, keyOk2) ==
    LET ea == encrypt_token(access_token, keyOk)
        er == encrypt_token(refresh_token, keyOk2)
    IN  IF ~ea.ok THEN Err("encrypt access token")
        ELSE IF ~er.ok THEN Err("encrypt refresh token")
        ELSE Ok([email |-> email, display_name |-> display_name,
                 access_token |-> Val(ea), refresh_token |-> Val(er),
                 expires_at |-> t + expires_in_seconds, is_active |-> TRUE])

decrypt_access_token(acct, keyOk) == decrypt_token(acct.access_token, keyOk)

decrypt_refresh_token(acct, keyOk) == decrypt_token(acct.refresh_token, keyOk)

is_token_expiring_Strict(acct, threshold_minutes, t) ==
    acct.expires_at < t + threshold_minutes * SecondsPerMinute

is_token_expiring(acct, threshold_minutes, t) ==
    acct.expires_at <= t + threshold_minutes * SecondsPerMinute

update_access_token_KeepToken(acct, new_token, expires_in_seconds, t, keyOk) ==
    LET e == encrypt_token(new_token, keyOk)
    IN  IF ~e.ok THEN Err("encrypt access token")
        ELSE Ok([acct EXCEPT !.expires_at = t + expires_in_seconds])

\* Result<GmailAccount>: the account after the call (self is untouched on Err)
update_access_token(acct, new_token, expires_in_seconds, t, keyOk) ==
    LET e == encrypt_token(new_token, keyOk)
    IN  IF ~e.ok THEN Err("encrypt access token")
        ELSE Ok([acct EXCEPT !.access_token = Val(e),
                             !.expires_at = t + expires_in_seconds])

----------------------------------------------------------------------------
(* src/config/storage.rs: the account file *)

load_accounts_NoCheck(file, readOk) ==
    IF ~readOk THEN Err("read accounts file") ELSE Ok(file)

\* a record whose token field lacks the prefix fails deserialize_token, and
\* with it the whole toml::from_str
load_accounts(file, readOk) ==
    IF ~readOk THEN Err("read accounts file")
    ELSE IF \E i \in 1..Len(file) :
                ~is_encrypted(file[i].access_token) \/ ~is_encrypted(file[i].refresh_token)
         THEN Err("parse accounts file")
    ELSE Ok(file)

\* serialize_token gives the field as the file gets it: a string that has
\* the prefix as it is, any other one encrypted
serialize_token(token, keyOk) ==
    IF is_encrypted(token) THEN Ok(token) ELSE encrypt_token(token.plain, keyOk)

\* the serialization of one account
serialize_account(a, keyOk) ==
    LET at == serialize_token(a.access_token, keyOk)
        rt == serialize_token(a.refresh_token, keyOk)
    IN  IF ~at.ok THEN at
        ELSE IF ~rt.ok THEN rt
        ELSE Ok([a EXCEPT !.access_token = Val(at), !.refresh_token = Val(rt)])

\* Result<file>: the new content of the file, each record as serde writes
\* it.  The list is bound as the element of a set of one element, which
\* gives it its value once.
save_accounts(accounts, file, keyOk, writeOk) ==
    LET written(list) ==
            IF \E i \in DOMAIN list : ~serialize_account(list[i], keyOk).ok
            THEN Err("serialize accounts")
            ELSE IF ~writeOk THEN Err("write accounts file")
            ELSE Ok([i \in DOMAIN list |-> Val(serialize_account(list[i], keyOk))])
    IN  CHOOSE r \in {written(list) : list \in {accounts}} : TRUE

save_account_Append(acct, file, keyOk, readOk, writeOk) ==
    LET loaded == load_accounts(file, readOk)
    IN  IF ~loaded.ok THEN loaded
        ELSE save_accounts(Append(Val(loaded), acct), file, keyOk, writeOk)

save_account(acct, file, keyOk, readOk, writeOk) ==
    LET loaded == load_accounts(file, readOk)
    IN  IF ~loaded.ok THEN loaded
        ELSE LET accounts == Val(loaded)
                 hits == {i \in 1..Len(accounts) : accounts[i].email = acct.email}
                 first == CHOOSE i \in hits : \A j \in hits : i <= j
                 merged == IF hits # {} THEN [accounts EXCEPT ![first] = acct]
                           ELSE Append(accounts, acct)
             IN  save_accounts(merged, file, keyOk, writeOk)

----------------------------------------------------------------------------
(* The provider's token endpoint, refresh grant.  expires_in is an Option: *)
(* the empty set (field absent) or a singleton.                            *)

IssuedTtl == {0, 300, 301, 3600}

RefreshErrors == {"invalid_grant", "401", "network", "500"}

unwrap_or(opt, default) == IF opt = {} THEN default ELSE CHOOSE x \in opt : TRUE

RefreshResponses(n) ==
    {Err(e) : e \in RefreshErrors}
        \cup {Ok([access_token |-> n, expires_in |-> ttl]) :
                 ttl \in {{}} \cup {{x} : x \in IssuedTtl}}

----------------------------------------------------------------------------
(* src/mail/gmail/token.rs: TokenManager *)

REFRESH_THRESHOLD_MINUTES == 5

DEFAULT_EXPIRES_IN == 3600

\* refresh_access_token up to the request: step 1, decrypt the refresh token
refresh_begin(acct, keyOk) ==
    LET rt == decrypt_refresh_token(acct, keyOk)
    IN  IF ~rt.ok THEN Err("decrypt refresh token") ELSE rt

\* the error of a failed exchange, as token.rs lines 98-117 classify it
refresh_error(e) ==
    IF e \in {"invalid_grant", "401"} THEN Err("refresh exchange failed (expired or revoked)")
    ELSE Err("refresh exchange failed")

\* refresh_finish with the expiry reset when the exchange fails
refresh_finish_Invalidate(acct, file, resp, t, keyOk, readOk, writeOk) ==
    IF ~resp.ok
    THEN [account |-> [acct EXCEPT !.expires_at = t], file |-> file,
          result |-> refresh_error(resp.err.msg), saves |-> 0]
    ELSE LET expires_in == unwrap_or(Val(resp).expires_in, DEFAULT_EXPIRES_IN)
             upd == update_access_token(acct, Val(resp).access_token, expires_in, t, keyOk)
         IN  IF ~upd.ok
             THEN [account |-> acct, file |-> file,
                   result |-> Err("update access token"), saves |-> 0]
             ELSE LET sv == save_account(Val(upd), file, keyOk, readOk, writeOk)
                  IN  IF ~sv.ok
                      THEN [account |-> Val(upd), file |-> file,
                            result |-> Err("save account"), saves |-> 1]
                      ELSE [account |-> Val(upd), file |-> Val(sv),
                            result |-> OkUnit, saves |-> 1]

\* refresh_finish with the account rolled back when the save fails
refresh_finish_Revert(acct, file, resp, t, keyOk, readOk, writeOk) ==
    IF ~resp.ok
    THEN [account |-> acct, file |-> file, result |-> refresh_error(resp.err.msg), saves |-> 0]
    ELSE LET expires_in == unwrap_or(Val(resp).expires_in, DEFAULT_EXPIRES_IN)
             upd == update_access_token(acct, Val(resp).access_token, expires_in, t, keyOk)
         IN  IF ~upd.ok
             THEN [account |-> acct, file |-> file,
                   result |-> Err("update access token"), saves |-> 0]
             ELSE LET sv == save_account(Val(upd), file, keyOk, readOk, writeOk)
                  IN  IF ~sv.ok
                      THEN [account |-> acct, file |-> file,
                            result |-> Err("save account"), saves |-> 1]
                      ELSE [account |-> Val(upd), file |-> Val(sv),
                            result |-> OkUnit, saves |-> 1]

\* refresh_access_token from the response on: steps 4 (update, encrypting)
\* and 5 (persist).  Gives the account and the file after the call, the
\* call's result and the number of save_account calls made.
refresh_finish(acct, file, resp, t, keyOk, readOk, writeOk) ==
    IF ~resp.ok
    THEN [account |-> acct, file |-> file, result |-> refresh_error(resp.err.msg), saves |-> 0]
    ELSE LET expires_in == unwrap_or(Val(resp).expires_in, DEFAULT_EXPIRES_IN)
             upd == update_access_token(acct, Val(resp).access_token, expires_in, t, keyOk)
         IN  IF ~upd.ok
             THEN [account |-> acct, file |-> file,
                   result |-> Err("update access token"), saves |-> 0]
             ELSE LET sv == save_account(Val(upd), file, keyOk, readOk, writeOk)
                  IN  IF ~sv.ok
                      THEN [account |-> Val(upd), file |-> file,
                            result |-> Err("save account"), saves |-> 1]
                      ELSE [account |-> Val(upd), file |-> Val(sv),
                            result |-> OkUnit, saves |-> 1]

\* the history kept of a TokenManager call: n-th call, operation, whether it
\* has returned, is_token_expiring(5) at the call, times of call and return,
\* account and file at the call, token-endpoint requests sent, save_account
\* calls made, the endpoint's response and the value returned

\* get_valid_token refreshing only a token that has already expired
needs_refresh_NoThreshold(acct, t) == is_token_expiring(acct, 0, t)

\* get_valid_token line 53: does this call refresh?
needs_refresh(acct, t) == is_token_expiring(acct, REFRESH_THRESHOLD_MINUTES, t)

\* get_valid_token after the refresh (if any) returned r: lines 58-62
get_valid_token_return(acct, r, keyOk) ==
    IF ~r.ok THEN r ELSE decrypt_access_token(acct, keyOk)

NoUnsaved == [set |-> FALSE, token |-> 0, expires_at |-> 0]

NoCall(acct, file) ==
    [n |-> 0, op |-> "none", done |-> TRUE, expiring |-> FALSE, t0 |-> 0, t1 |-> 0,
     acct0 |-> acct, file0 |-> file, exchanges |-> 0, saves |-> 0,
     resp |-> Err("none"), result |-> Err("none")]

NewCall(op) ==
    [n |-> call.n + 1, op |-> op, done |-> FALSE,
     expiring |-> is_token_expiring(tm_account, REFRESH_THRESHOLD_MINUTES, now),
     t0 |-> now, t1 |-> now,
     acct0 |-> tm_account, file0 |-> store, exchanges |-> 0, saves |-> 0,
     resp |-> Err("none"), result |-> Err("none")]

\* get_valid_token is called: returns at once when no refresh is due or the
\* refresh token does not decrypt, else sends the refresh request
GetValidTokenCall ==
    /\ tm_pc = "idle"
    /\ call.n < MaxCalls
    /\ \E keyOk \in BOOLEAN :
         LET c == NewCall("get_valid_token")
         IN  IF needs_refresh(tm_account, now)
             THEN LET rt == refresh_begin(tm_account, keyOk)
                  IN  IF rt.ok /\ issued < MaxIssued
                      THEN /\ tm_pc' = "exchange"
                           /\ tm_op' = "get_valid_token"
                           /\ call' = [c EXCEPT !.exchanges = 1]
                      ELSE /\ ~rt.ok
                           /\ tm_pc' = "idle"
                           /\ tm_op' = "none"
                           /\ call' = [c EXCEPT !.done = TRUE, !.result = rt]
             ELSE /\ tm_pc' = "idle"
                  /\ tm_op' = "none"
                  /\ call' = [c EXCEPT !.done = TRUE,
                                 !.result = get_valid_token_return(tm_account, OkUnit, keyOk)]
    /\ UNCHANGED <<now, ticks, tm_account, store, issued, unsaved, auth, sync, crypto, ondemand, race, gmail, engine>>

\* force_refresh is called: refresh_access_token whatever the expiry
ForceRefreshCall ==
    /\ tm_pc = "idle"
    /\ call.n < MaxCalls
    /\ \E keyOk \in BOOLEAN :
         LET c == NewCall("force_refresh")
             rt == refresh_begin(tm_account, keyOk)
         IN  IF rt.ok /\ issued < MaxIssued
             THEN /\ tm_pc' = "exchange"
                  /\ tm_op' = "force_refresh"
                  /\ call' = [c EXCEPT !.exchanges = 1]
             ELSE /\ ~rt.ok
                  /\ tm_pc' = "idle"
                  /\ tm_op' = "none"
                  /\ call' = [c EXCEPT !.done = TRUE, !.result = rt]
    /\ UNCHANGED <<now, ticks, tm_account, store, issued, unsaved, auth, sync, crypto, ondemand, race, gmail, engine>>

\* the token endpoint answers the refresh request and the call runs to its
\* return: update, persist and, for get_valid_token, decrypt
ExchangeReturn ==
    /\ tm_pc = "exchange"
    /\ \E resp \in RefreshResponses(issued + 1), keyOk \in BOOLEAN, keyOk2 \in BOOLEAN,
          readOk \in BOOLEAN, writeOk \in BOOLEAN :
         LET f == refresh_finish(tm_account, store, resp, now, keyOk, readOk, writeOk)
             updated == resp.ok /\ f.account # tm_account
             r == IF tm_op = "get_valid_token"
                  THEN get_valid_token_return(f.account, f.result, keyOk2)
                  ELSE f.result
         IN  /\ tm_account' = f.account
             /\ store' = f.file
             /\ issued' = IF resp.ok THEN issued + 1 ELSE issued
             /\ call' = [call EXCEPT !.done = TRUE, !.t1 = now, !.saves = f.saves,
                                     !.resp = resp, !.result = r]
             /\ unsaved' = IF updated /\ ~f.result.ok
                           THEN [set |-> TRUE, token |-> Val(resp).access_token,
                                 expires_at |-> f.account.expires_at]
                           ELSE IF updated THEN NoUnsaved ELSE unsaved
    /\ tm_pc' = "idle"
    /\ tm_op' = "none"
    /\ UNCHANGED <<now, ticks, auth, sync, crypto, ondemand, race, gmail, engine>>

TickSteps == {1, 3299}

\* time passes
Tick ==
    /\ ticks < MaxTicks
    /\ \E d \in TickSteps : now' = now + d
    /\ ticks' = ticks + 1
    /\ UNCHANGED <<tm_account, tm_pc, tm_op, store, issued, call, unsaved, auth, sync, crypto, ondemand, race, gmail, engine>>

InitialTtl == {-3600, 300, 301, 3600}

\* the account as authenticate created it at time 0 with ttl, or the same
\* record read from a file that came from another machine
InitialAccount(ttl, foreign) ==
    LET a == Val(GmailAccount_new("a@gmail.com", "a", 0, "refresh-a", ttl, 0, TRUE, TRUE))
    IN  IF foreign
        THEN [a EXCEPT !.access_token.key = OtherKey, !.refresh_token.key = OtherKey]
        ELSE a

OtherAccount == Val(GmailAccount_new("b@gmail.com", "b", 0, "refresh-b", 3600, 0, TRUE, TRUE))

\* no authorization flow
AuthIdle == [pc |-> "none"]

\* no SyncEngine
SyncIdle == [pc |-> "none"]

\* no secret under encryption
CryptoIdle == [pc |-> "none"]

\* no sync_now call under comparison
OndemandIdle == [pc |-> "none"]

\* no concurrent writers of the account file
RaceIdle == [pc |-> "none"]

\* no account value under test
GmailIdle == [pc |-> "none"]

\* no engine with tasks
EngineIdle == [pc |-> "none"]

InitToken ==
    /\ now = 0
    /\ ticks = 0
    /\ \E ttl \in InitialTtl, foreign \in BOOLEAN :
         /\ tm_account = InitialAccount(ttl, foreign)
         /\ store \in {<< >>, <<OtherAccount, InitialAccount(ttl, foreign)>>}
    /\ tm_pc = "idle"
    /\ tm_op = "none"
    /\ issued = 0
    /\ call = NoCall(tm_account, store)
    /\ unsaved = NoUnsaved
    /\ auth = AuthIdle
    /\ sync = SyncIdle
    /\ crypto = CryptoIdle
    /\ ondemand = OndemandIdle
    /\ race = RaceIdle
    /\ gmail = GmailIdle
    /\ engine = EngineIdle

NextToken == GetValidTokenCall \/ ForceRefreshCall \/ ExchangeReturn \/ Tick

SpecToken == InitToken /\ [][NextToken]_vars

----------------------------------------------------------------------------
(* Claims about TokenManager, checked under SpecToken *)

\* C1 as stated: a get_valid_token call sends a refresh request if and only
\* if is_token_expiring(5 minutes) held at the call.
C1_ExchangeIffExpiring ==
    (call.op = "get_valid_token" /\ call.done) =>
        ((call.exchanges = 1) <=> call.expiring)

\* C1 as amended: a get_valid_token call sends at most one refresh request,
\* and sends one if and only if is_token_expiring(5 minutes) held at the call
\* and the call did not fail decrypting the stored refresh token.  When the
\* token was not expiring the call returns at once, with no request sent, no
\* save_account call, account and file untouched, and its result is the
\* decryption of the stored access token (the plaintext or the decryption
\* error).
C1_ExchangeIffExpiringAndDecrypts ==
    (call.op = "get_valid_token") =>
        /\ call.exchanges <= 1
        /\ (call.exchanges = 1) <=>
              (call.expiring /\ ~(call.done /\ call.result = Err("decrypt refresh token")))
        /\ ~call.expiring =>
              /\ call.done
              /\ call.saves = 0
              /\ store = call.file0
              /\ tm_account = call.acct0
              /\ IF call.result.ok
                 THEN call.result.val = {call.acct0.access_token.plain}
                 ELSE call.result.err.msg \in {"missing prefix", "key derivation", "AES-GCM open"}

\* a get_valid_token call found the token expiring, refreshed and returned
C1_Witness ==
    /\ call.op = "get_valid_token"
    /\ call.done
    /\ call.expiring
    /\ call.exchanges = 1
    /\ call.result.ok

\* C2 as stated: whenever get_valid_token returns a token, it is the
\* plaintext of the stored access_token and expires_at is strictly later than
\* the time of the return, whatever TTL the refresh response carried; and a
\* call that started with expires_at in the past made exactly one refresh.
C2_ReturnedTokenNotExpired ==
    (call.op = "get_valid_token" /\ call.done /\ call.result.ok) =>
        /\ call.result.val = {tm_account.access_token.plain}
        /\ tm_account.expires_at > call.t1
        /\ (call.acct0.expires_at < call.t0 => call.exchanges = 1)

\* C3: a refresh (by get_valid_token or force_refresh) never changes email,
\* refresh_token, display_name or is_active; it changes access_token and
\* expires_at only when the exchange succeeded; when no exchange succeeded
\* the account is unchanged, save_account was not called and the file is
\* unchanged.
C3_RefreshFrame ==
    (call.n > 0) =>
        /\ tm_account.email = call.acct0.email
        /\ tm_account.refresh_token = call.acct0.refresh_token
        /\ tm_account.display_name = call.acct0.display_name
        /\ tm_account.is_active = call.acct0.is_active
        /\ tm_account.email = "a@gmail.com"
        /\ tm_account.refresh_token.plain = "refresh-a"
        /\ (tm_account # call.acct0 => call.done /\ call.resp.ok)
        /\ (call.done /\ ~call.resp.ok) =>
              /\ tm_account = call.acct0
              /\ call.saves = 0
              /\ store = call.file0

\* a forced refresh was answered with invalid_grant
C3_Witness ==
    /\ call.op = "force_refresh"
    /\ call.done
    /\ call.exchanges = 1
    /\ call.resp = Err("invalid_grant")
    /\ call.result = Err("refresh exchange failed (expired or revoked)")

\* C4: when the exchange succeeded and the save that followed failed (the
\* file does not hold the new token), the call reports an error and the
\* account keeps the new token with its new expiry; a later get_valid_token
\* on the same manager that needs no refresh returns that token.
C4_UnsavedRefreshKept ==
    /\ (/\ call.done
        /\ call.resp.ok
        /\ call.saves = 1
        /\ \A i \in 1..Len(store) :
              store[i].access_token.plain # Val(call.resp).access_token) =>
            /\ ~call.result.ok
            /\ decrypt_access_token(tm_account, TRUE) = Ok(Val(call.resp).access_token)
            /\ tm_account.expires_at =
                  call.t1 + unwrap_or(Val(call.resp).expires_in, DEFAULT_EXPIRES_IN)
    /\ (/\ unsaved.set
        /\ call.op = "get_valid_token"
        /\ call.done
        /\ call.exchanges = 0
        /\ call.result.ok) =>
            /\ call.result.val = {unsaved.token}
            /\ tm_account.expires_at = unsaved.expires_at

\* after a refresh whose save failed, a later get_valid_token returned without refreshing
C4_Witness ==
    /\ unsaved.set
    /\ call.op = "get_valid_token"
    /\ call.done
    /\ call.exchanges = 0
    /\ call.result.ok

----------------------------------------------------------------------------
(* src/mail/gmail/oauth.rs: the authorization flow.                        *)
(*                                                                         *)
(* authenticate runs as one task; start_local_server runs on a thread of   *)
(* its own and hands the callback over through a oneshot channel; the      *)
(* browser (or anybody else on the loopback interface) sends the callback  *)
(* request.  An Option is the empty set or a singleton.                    *)

CALLBACK_TIMEOUT_SECS == 60

PORT_RANGE == 8080..8089

\* CsrfToken::new_random is 16 random bytes in base64url: 22 characters
CsrfLen == 22

\* authenticate line 189 prints the first 8 bytes of the received state
CsrfShown == 8

\* a state value: an identity and its length in bytes
GeneratedStates == {[id |-> 1, len |-> CsrfLen], [id |-> 2, len |-> CsrfLen]}

ReceivedStates == GeneratedStates \cup {[id |-> 3, len |-> 1]}

Codes == {"code-1", "code-2"}

\* the query of a callback request
Requests ==
    [error : {{}, {"access_denied"}},
     code : {{}} \cup {{c} : c \in Codes},
     state : {{}} \cup {{x} : x \in ReceivedStates}]

NoRequest == [error |-> {}, code |-> {}, state |-> {}]

\* try_build_auth_url: builds the client, the PKCE pair and the URL for the
\* port; no step of it can fail for these constant URLs
try_build_auth_url(port, csrf, verifier) ==
    Ok([redirect_port |-> port, csrf_state |-> csrf, pkce_verifier |-> verifier, port |-> port])

\* build_auth_url: the first port of PORT_RANGE for which try_build_auth_url
\* succeeds
build_auth_url(csrf, verifier) ==
    LET good == {p \in PORT_RANGE : try_build_auth_url(p, csrf, verifier).ok}
    IN  IF good # {}
        THEN try_build_auth_url(CHOOSE p \in good : \A q \in good : p <= q, csrf, verifier)
        ELSE AErr("last error", "none")

\* start_local_server line 289: Server::http on the port
server_bind(port, occupied) ==
    IF port \in occupied THEN AErr("cannot start local server", "port in use") ELSE OkUnit

\* start_local_server lines 294-345 on the first request: the page answered,
\* the value returned by the thread and what is sent on the channel
handle_request(req, respondOk) ==
    IF req.error # {}
    THEN [page |-> IF respondOk THEN "error" ELSE "none",
          result |-> IF respondOk
                     THEN AErr("user denied", CHOOSE e \in req.error : TRUE)
                     ELSE AErr("respond", "none"),
          send |-> {}]
    ELSE IF req.code = {}
    THEN [page |-> "none", result |-> AErr("callback lacks code", "none"), send |-> {}]
    ELSE IF req.state = {}
    THEN [page |-> "none", result |-> AErr("callback lacks state", "none"), send |-> {}]
    ELSE IF ~respondOk
    THEN [page |-> "none", result |-> AErr("respond", "none"), send |-> {}]
    ELSE [page |-> "success", result |-> OkUnit,
          send |-> {[code |-> CHOOSE c \in req.code : TRUE,
                     state |-> CHOOSE x \in req.state : TRUE]}]

\* the state check comparing lengths only
csrf_mismatch_Len(received_state, csrf_state) == received_state.len # csrf_state.len

\* authenticate line 185
csrf_mismatch(received_state, csrf_state) == received_state # csrf_state

\* authenticate lines 186-190: bail! formats &received_state[..8], which
\* panics on a state shorter than 8 bytes
csrf_failure(received_state) ==
    IF received_state.len < CsrfShown
    THEN AErr("panic", "byte index out of range")
    ELSE AErr("CSRF state mismatch", "none")

\* the retry made after any failure
is_public_client_error_Any(e) == TRUE

\* exchange_code_for_token line 395
is_public_client_error(e) == e \in {"invalid_client", "Unauthorized"}

ExchangeErrors == {"invalid_client", "Unauthorized", "invalid_grant", "network"}

ExchangeResponses(n) ==
    {Err(e) : e \in ExchangeErrors}
        \cup {Ok([access_token |-> n, refresh_token |-> r, expires_in |-> ttl]) :
                 r \in {{}, {"refresh-new"}}, ttl \in {{}, {3600}}}

\* a missing refresh token replaced by the empty string
token_fields_Default(tok) ==
    Ok([access_token |-> tok.access_token,
        refresh_token |-> IF tok.refresh_token = {} THEN ""
                          ELSE CHOOSE r \in tok.refresh_token : TRUE,
        expires_in |-> unwrap_or(tok.expires_in, DEFAULT_EXPIRES_IN)])

\* authenticate lines 200-210 on the token response
token_fields(tok) ==
    IF tok.refresh_token = {}
    THEN AErr("no refresh_token", "none")
    ELSE Ok([access_token |-> tok.access_token,
             refresh_token |-> CHOOSE r \in tok.refresh_token : TRUE,
             expires_in |-> unwrap_or(tok.expires_in, DEFAULT_EXPIRES_IN)])

IdentityResponses ==
    {Err(e) : e \in {"send", "status"}}
        \cup {Ok([emailAddress |-> m]) : m \in {{}, {"a@gmail.com"}, {"c@gmail.com"}}}

\* fetch_user_info lines 445-463
fetch_user_info(resp) ==
    IF ~resp.ok THEN AErr("gmail api", resp.err.msg)
    ELSE IF Val(resp).emailAddress = {} THEN AErr("response lacks emailAddress", "none")
    ELSE Ok(CHOOSE m \in Val(resp).emailAddress : TRUE)

\* authenticate lines 227-236: create the account and save it.  Gives the
\* file after the call and the value authenticate returns.
finalize(email, tok, file, t, keyOk, readOk, writeOk) ==
    LET a == GmailAccount_new(email, email, tok.access_token, tok.refresh_token,
                              tok.expires_in, t, keyOk, keyOk)
    IN  IF ~a.ok THEN [file |-> file, result |-> AErr("create account", a.err.msg)]
        ELSE LET sv == save_account(Val(a), file, keyOk, readOk, writeOk)
             IN  IF ~sv.ok THEN [file |-> file, result |-> AErr("save account", sv.err.msg)]
                 ELSE [file |-> Val(sv), result |-> Ok(Val(a))]

\* a string of the configuration, as the sequence of its parts
contains(s, part) == \E i \in DOMAIN s : s[i] = part

\* OAuthConfig::default
DefaultConfig ==
    [client_id |-> <<"YOUR_CLIENT_ID", ".apps.googleusercontent.com">>,
     client_secret |-> <<"YOUR_CLIENT_SECRET">>]

\* what OAuthConfig::load returns: the default, or the two values read from
\* the environment or the file, either of which may still be the default's
LoadedConfigs ==
    [client_id : {DefaultConfig.client_id,
                  <<"real-client-id", ".apps.googleusercontent.com">>},
     client_secret : {DefaultConfig.client_secret, <<"real-secret">>}]

is_placeholder_Both(config) ==
    /\ contains(config.client_id, "YOUR_CLIENT_ID")
    /\ contains(config.client_secret, "YOUR_CLIENT_SECRET")

\* OAuthConfig::is_placeholder
is_placeholder(config) ==
    \/ contains(config.client_id, "YOUR_CLIENT_ID")
    \/ contains(config.client_secret, "YOUR_CLIENT_SECRET")

AuthTerminal == {"success", "failure", "timeout"}

\* pc: "start" | "await" | "exchange1" | "exchange2" | "identity" | terminal
\* req, handled, handled_pc, page: the request the listener served, whether
\* it served one, where authenticate was then, and the page answered
\* srv: the listener thread, "none" | "spawned" | "listening" | "ok" | "err"
\* chan: the oneshot channel, "open" | "sent" | "closed"
AuthStartState(config, occupied) ==
    [pc |-> "start", config |-> config, occupied |-> occupied,
     port |-> 0, redirect_port |-> 0, csrf_state |-> [id |-> 0, len |-> 0],
     pkce_verifier |-> "none", browser |-> FALSE,
     srv |-> "none", srv_result |-> OkUnit, bound |-> FALSE,
     req |-> NoRequest, handled |-> FALSE, handled_pc |-> "none", page |-> "none",
     chan |-> "open", chan_val |-> {}, elapsed |-> 0,
     received |-> {}, token_calls |-> << >>, token_resps |-> << >>,
     identity_calls |-> 0, identity_resp |-> {}, result |-> AErr("pending", "none"),
     file0 |-> store]

Fail(a, e) == [a EXCEPT !.pc = "failure", !.result = e]

\* authenticate up to its wait: load the configuration, build the URL, spawn
\* the listener thread, open the browser
AuthStart ==
    /\ auth.pc = "start"
    /\ IF is_placeholder(auth.config)
       THEN auth' = Fail(auth, AErr("placeholder configuration", "none"))
       ELSE \E csrf \in GeneratedStates, browserOk \in BOOLEAN :
              LET b == build_auth_url(csrf, "verifier-1")
                  a == [auth EXCEPT !.port = Val(b).port,
                                    !.redirect_port = Val(b).redirect_port,
                                    !.csrf_state = Val(b).csrf_state,
                                    !.pkce_verifier = Val(b).pkce_verifier,
                                    !.srv = "spawned"]
              IN  IF ~b.ok THEN auth' = Fail(auth, b)
                  ELSE IF ~browserOk
                  THEN auth' = Fail(a, AErr("cannot open browser", "none"))
                  ELSE auth' = [a EXCEPT !.pc = "await", !.browser = TRUE]
    /\ UNCHANGED tvars

\* the listener thread binds its port; on failure it returns, dropping the sender
ServerBind ==
    /\ auth.srv = "spawned"
    /\ LET b == server_bind(auth.port, auth.occupied)
       IN  IF b.ok
           THEN auth' = [auth EXCEPT !.srv = "listening", !.bound = TRUE]
           ELSE auth' = [auth EXCEPT !.srv = "err", !.srv_result = b, !.chan = "closed"]
    /\ UNCHANGED tvars

\* the listener thread serves the first request and returns
ServerRequest ==
    /\ auth.srv = "listening"
    /\ \E req \in Requests, respondOk \in BOOLEAN :
         LET h == handle_request(req, respondOk)
         IN  auth' = [auth EXCEPT !.srv = IF h.result.ok THEN "ok" ELSE "err",
                                  !.srv_result = h.result,
                                  !.bound = FALSE,
                                  !.req = req,
                                  !.handled = TRUE,
                                  !.handled_pc = auth.pc,
                                  !.page = h.page,
                                  !.chan = IF h.send # {} THEN "sent" ELSE "closed",
                                  !.chan_val = h.send]
    /\ UNCHANGED tvars

TimerSteps == {30}

\* time passes while authenticate waits for the callback
AuthTick ==
    /\ auth.pc = "await"
    /\ auth.elapsed < CALLBACK_TIMEOUT_SECS
    /\ \E d \in TimerSteps : auth' = [auth EXCEPT !.elapsed = auth.elapsed + d]
    /\ UNCHANGED tvars

\* the wait for the callback without its timeout
AuthTimeout_NoTimer ==
    /\ FALSE
    /\ UNCHANGED vars

\* the timeout elapses with nothing on the channel
AuthTimeout ==
    /\ auth.pc = "await"
    /\ auth.chan = "open"
    /\ auth.elapsed >= CALLBACK_TIMEOUT_SECS
    /\ auth' = [auth EXCEPT !.pc = "timeout",
                            !.result = AErr("authorization timed out", "elapsed")]
    /\ UNCHANGED tvars

\* the sender was dropped without a value: the wait ends with RecvError
AuthChannelClosed ==
    /\ auth.pc = "await"
    /\ auth.chan = "closed"
    /\ auth' = Fail(auth, AErr("local server failed to receive callback", "channel closed"))
    /\ UNCHANGED tvars

\* the callback is received: join the thread, check the state and send the
\* first exchange request (with the client secret)
AuthReceive ==
    /\ auth.pc = "await"
    /\ auth.chan = "sent"
    /\ LET cb == CHOOSE v \in auth.chan_val : TRUE
           a == [auth EXCEPT !.received = {cb}]
       IN  IF ~auth.srv_result.ok
           THEN auth' = Fail(a, AErr("server shutdown", auth.srv_result.err.msg))
           ELSE IF csrf_mismatch(cb.state, auth.csrf_state)
           THEN auth' = Fail(a, csrf_failure(cb.state))
           ELSE auth' = [a EXCEPT !.pc = "exchange1",
                                  !.token_calls = <<[code |-> cb.code,
                                                     verifier |-> auth.pkce_verifier,
                                                     redirect_port |-> auth.port,
                                                     secret |-> TRUE]>>]
    /\ UNCHANGED tvars

\* after a token response: the fields taken from it and the identity request
AfterExchange(a, resp) ==
    LET f == token_fields(Val(resp))
    IN  IF ~f.ok THEN Fail(a, f)
        ELSE [a EXCEPT !.pc = "identity", !.identity_calls = a.identity_calls + 1]

\* the token endpoint answers the first exchange request
Exchange1Return ==
    /\ auth.pc = "exchange1"
    /\ \E resp \in ExchangeResponses(issued + 1) :
         LET a == [auth EXCEPT !.token_resps = Append(auth.token_resps, resp)]
             first == auth.token_calls[1]
         IN  /\ issued' = IF resp.ok THEN issued + 1 ELSE issued
             /\ IF resp.ok THEN auth' = AfterExchange(a, resp)
                ELSE IF is_public_client_error(resp.err.msg)
                THEN auth' = [a EXCEPT !.pc = "exchange2",
                                       !.token_calls =
                                           Append(a.token_calls, [first EXCEPT !.secret = FALSE])]
                ELSE auth' = Fail(a, AErr("token exchange request failed", resp.err.msg))
    /\ UNCHANGED <<now, ticks, tm_account, tm_pc, tm_op, store, call, unsaved, sync, crypto, ondemand, race, gmail, engine>>

\* the token endpoint answers the retry made without the client secret
Exchange2Return ==
    /\ auth.pc = "exchange2"
    /\ \E resp \in ExchangeResponses(issued + 1) :
         LET a == [auth EXCEPT !.token_resps = Append(auth.token_resps, resp)]
         IN  /\ issued' = IF resp.ok THEN issued + 1 ELSE issued
             /\ IF resp.ok THEN auth' = AfterExchange(a, resp)
                ELSE auth' = Fail(a, AErr("token exchange failed", resp.err.msg))
    /\ UNCHANGED <<now, ticks, tm_account, tm_pc, tm_op, store, call, unsaved, sync, crypto, ondemand, race, gmail, engine>>

\* the identity endpoint answers: create the account, save it and return it
IdentityReturn ==
    /\ auth.pc = "identity"
    /\ \E resp \in IdentityResponses, keyOk \in BOOLEAN, readOk \in BOOLEAN, writeOk \in BOOLEAN :
         LET a == [auth EXCEPT !.identity_resp = {resp}]
             who == fetch_user_info(resp)
             tok == Val(token_fields(Val(auth.token_resps[Len(auth.token_resps)])))
             f == finalize(Val(who), tok, store, now, keyOk, readOk, writeOk)
         IN  IF ~who.ok
             THEN /\ auth' = Fail(a, who)
                  /\ store' = store
             ELSE /\ auth' = IF f.result.ok
                             THEN [a EXCEPT !.pc = "success", !.result = f.result]
                             ELSE Fail(a, f.result)
                  /\ store' = f.file
    /\ UNCHANGED <<now, ticks, tm_account, tm_pc, tm_op, issued, call, unsaved, sync, crypto, ondemand, race, gmail, engine>>

OccupiedChoices == {{}, {8080}, PORT_RANGE}

InitAuth ==
    /\ now = 0
    /\ ticks = 0
    /\ tm_account = OtherAccount
    /\ tm_pc = "idle"
    /\ tm_op = "none"
    /\ store \in {<< >>, <<OtherAccount, InitialAccount(3600, FALSE)>>}
    /\ issued = 0
    /\ call = NoCall(tm_account, store)
    /\ unsaved = NoUnsaved
    /\ \E config \in LoadedConfigs, occupied \in OccupiedChoices :
         auth = AuthStartState(config, occupied)
    /\ sync = SyncIdle
    /\ crypto = CryptoIdle
    /\ ondemand = OndemandIdle
    /\ race = RaceIdle
    /\ gmail = GmailIdle
    /\ engine = EngineIdle

NextAuth ==
    \/ AuthStart
    \/ ServerBind
    \/ ServerRequest
    \/ AuthTick
    \/ AuthTimeout
    \/ AuthChannelClosed
    \/ AuthReceive
    \/ Exchange1Return
    \/ Exchange2Return
    \/ IdentityReturn

SpecAuth == InitAuth /\ [][NextAuth]_vars

\* the task, the thread, the timer and the provider's answers make progress;
\* nothing obliges anybody to send the callback request
AuthFairness ==
    /\ WF_vars(AuthStart)
    /\ WF_vars(ServerBind)
    /\ WF_vars(AuthTick)
    /\ WF_vars(AuthTimeout)
    /\ WF_vars(AuthChannelClosed)
    /\ WF_vars(AuthReceive)
    /\ WF_vars(Exchange1Return)
    /\ WF_vars(Exchange2Return)
    /\ WF_vars(IdentityReturn)

SpecAuthLive == SpecAuth /\ AuthFairness

----------------------------------------------------------------------------
(* Claims about the authorization flow, checked under SpecAuth (C9 under   *)
(* SpecAuthLive)                                                           *)

\* C5: once authenticate has received a callback whose state differs from
\* the state generated for this flow, the flow has ended in failure without
\* any token-endpoint call, any identity call or any change of the account
\* file, whatever the code is.
C5_CsrfEnforced ==
    \A cb \in auth.received :
        cb.state # auth.csrf_state =>
            /\ auth.pc = "failure"
            /\ ~auth.result.ok
            /\ auth.token_calls = << >>
            /\ auth.token_resps = << >>
            /\ auth.identity_calls = 0
            /\ store = auth.file0

\* a callback with a code and a well-formed but different state was received
C5_Witness ==
    \E cb \in auth.received :
        /\ cb.state # auth.csrf_state
        /\ cb.state.len = CsrfLen
        /\ auth.pc = "failure"

\* C6: authenticate returns an account only once the file holds it; the
\* file changes only at the successful end of a flow in which, in order, a
\* callback with code and state and no error was served and received, the
\* state matched, the last token response carried an access and a refresh
\* token and the identity response carried an email.  A token response
\* without refresh token, or a callback lacking code or state, leaves the
\* file unchanged and never leads to success.
C6_PersistedOnlyAfterAllSteps ==
    LET saved == store # auth.file0
        n == Len(auth.token_resps)
        tokenOk == /\ n >= 1
                   /\ auth.token_resps[n].ok
                   /\ Val(auth.token_resps[n]).refresh_token # {}
        callbackOk == /\ auth.handled
                      /\ auth.req.error = {}
                      /\ auth.req.code # {}
                      /\ auth.req.state # {}
                      /\ auth.received # {}
                      /\ \A cb \in auth.received :
                            /\ cb.state = auth.csrf_state
                            /\ cb.code \in auth.req.code
                            /\ cb.state \in auth.req.state
        identityOk == /\ auth.identity_resp # {}
                      /\ \A r \in auth.identity_resp : r.ok /\ Val(r).emailAddress # {}
    IN  /\ (auth.pc = "success") =>
              /\ auth.result.ok
              /\ \E i \in 1..Len(store) : store[i] \in auth.result.val
              /\ \A r \in auth.identity_resp : Val(auth.result).email \in Val(r).emailAddress
        /\ saved => auth.pc = "success"
        /\ (auth.pc = "success") => (callbackOk /\ tokenOk /\ identityOk)
        /\ (auth.identity_calls > 0) => (callbackOk /\ tokenOk)
        /\ (auth.token_calls # << >>) => callbackOk
        /\ (n >= 1 /\ auth.token_resps[n].ok /\ Val(auth.token_resps[n]).refresh_token = {}) =>
              (auth.pc = "failure" /\ ~saved /\ auth.identity_calls = 0)
        /\ (auth.handled /\ (auth.req.code = {} \/ auth.req.state = {})) =>
              /\ auth.pc \in {"await", "failure", "timeout"}
              /\ (auth.handled_pc = "await" => auth.pc \in {"await", "failure"})
              /\ auth.token_calls = << >>
              /\ ~saved

\* a flow ended in success
C6_Witness ==
    /\ auth.pc = "success"
    /\ store # auth.file0

\* C7: a flow calls the token endpoint at most twice; the first call carries
\* the client secret; there is a second call exactly when the first was
\* answered with invalid_client or Unauthorized, and it has the code, the
\* verifier and the redirect URI of the first and no client secret; any
\* other failure of the first call, and any failure of the second, ends the
\* flow in failure.
C7_ExchangeAtMostTwice ==
    LET calls == auth.token_calls
        resps == auth.token_resps
    IN  /\ Len(calls) <= 2
        /\ Len(resps) <= Len(calls)
        /\ (Len(calls) >= 1) => calls[1].secret
        /\ (Len(calls) = 2) <=>
              (Len(resps) >= 1 /\ ~resps[1].ok /\ resps[1].err.msg \in {"invalid_client", "Unauthorized"})
        /\ (Len(calls) = 2) =>
              /\ ~calls[2].secret
              /\ calls[2].code = calls[1].code
              /\ calls[2].verifier = calls[1].verifier
              /\ calls[2].redirect_port = calls[1].redirect_port
        /\ (Len(resps) >= 1 /\ ~resps[1].ok /\ resps[1].err.msg \notin {"invalid_client", "Unauthorized"}) =>
              (auth.pc = "failure" /\ Len(calls) = 1)
        /\ (Len(resps) = 2 /\ ~resps[2].ok) => auth.pc = "failure"

\* the retry without client secret was made and failed
C7_Witness ==
    /\ Len(auth.token_resps) = 2
    /\ ~auth.token_resps[2].ok
    /\ auth.token_resps[1].err.msg = "invalid_client"

\* C8 as stated: when the listener served, while authenticate was waiting, a
\* callback with an error parameter (and answered the error page), the flow
\* ends in failure, the error authenticate returns carries the provider's
\* error string, and no token exchange is attempted.
C8_ProviderErrorCarried ==
    (/\ auth.handled
     /\ auth.handled_pc = "await"
     /\ auth.req.error # {}
     /\ auth.page = "error"
     /\ auth.pc \in AuthTerminal) =>
        /\ auth.pc = "failure"
        /\ auth.result.err.cause \in auth.req.error
        /\ auth.token_calls = << >>

\* C9: a flow that ended in timeout waited the whole timeout, called neither
\* the token endpoint nor the identity endpoint and left the file unchanged;
\* a wait that ends while the channel is still open (no callback handed
\* over, listener thread not returned) ends in timeout; and every flow
\* eventually reaches a terminal state.
C9_TimeoutTerminates ==
    /\ [](auth.pc = "timeout" =>
            /\ auth.elapsed >= CALLBACK_TIMEOUT_SECS
            /\ auth.token_calls = << >>
            /\ auth.identity_calls = 0
            /\ store = auth.file0)
    /\ [][(auth.pc = "await" /\ auth.chan = "open" /\ auth'.pc \in AuthTerminal) =>
            auth'.pc = "timeout"]_vars
    /\ <>(auth.pc \in AuthTerminal)

\* a flow timed out although its listener was running and nobody called back
C9_Witness ==
    /\ auth.pc = "timeout"
    /\ auth.srv = "listening"
    /\ ~auth.handled

\* C10 as stated: the flow uses the first port of 8080..8089 that is not
\* occupied, the redirect URI names that port and the listener binds it; only
\* when all ten are occupied does the flow fail, with an all-ports-exhausted
\* error.
C10_FirstFreePortUsed ==
    LET free == PORT_RANGE \ auth.occupied
    IN  (auth.pc # "start" /\ ~is_placeholder(auth.config)) =>
            /\ (free # {}) =>
                  /\ auth.port = CHOOSE p \in free : \A q \in free : p <= q
                  /\ auth.redirect_port = auth.port
                  /\ auth.srv_result.ok
            /\ (free = {}) =>
                  /\ auth.pc = "failure"
                  /\ auth.result.err.msg = "all ports exhausted"

----------------------------------------------------------------------------
\* C11: when the loaded configuration still holds the default client id or
\* the default client secret, authenticate fails before any other step: no
\* authorization URL is built, no listener is started, no browser is opened
\* and no request goes to the token or identity endpoint; nothing is stored.
C11_PlaceholderFailsFirst ==
    (/\ \/ contains(auth.config.client_id, "YOUR_CLIENT_ID")
        \/ contains(auth.config.client_secret, "YOUR_CLIENT_SECRET")
     /\ auth.pc # "start")
    => /\ auth.pc = "failure"
       /\ auth.result.err.msg = "placeholder configuration"
       /\ auth.port = 0
       /\ auth.csrf_state.id = 0
       /\ auth.pkce_verifier = "none"
       /\ auth.srv = "none"
       /\ ~auth.bound
       /\ ~auth.handled
       /\ ~auth.browser
       /\ auth.token_calls = << >>
       /\ auth.identity_calls = 0
       /\ store = auth.file0

\* authenticate has ended on a configuration whose client id alone is the
\* default's
C11_Witness ==
    /\ contains(auth.config.client_id, "YOUR_CLIENT_ID")
    /\ ~contains(auth.config.client_secret, "YOUR_CLIENT_SECRET")
    /\ auth.pc = "failure"

----------------------------------------------------------------------------
(***************************************************************************)
(* Part 3.  src/mail/gmail/api.rs and src/sync/mod.rs: the network probe,  *)
(* sync_account_info and the periodic task of the SyncEngine.  A message   *)
(* that the code searches with contains is the sequence of its parts.  The *)
(* time a request takes is not modelled: time passes in the sleeps only.   *)
(***************************************************************************)

\* cycles the periodic task is followed for
MaxCycles == 2

\* calls of start that spawn a task
MaxStarts == 1

\* a run has a network outage, of at most so many failed probe requests
\* within one probe, or failed token-endpoint and provider API requests, at
\* most so many
MaxOutages == 4
MaxFaults == 2

SYNC_INTERVAL_SECS == 2

\* the sleep before the first cycle
FIRST_SYNC_DELAY_SECS == 3

MAX_ATTEMPTS == 4

\* the cap of the probe's delay
MAX_DELAY_SECS == 30

Min(a, b) == IF a <= b THEN a ELSE b

Max(a, b) == IF a >= b THEN a ELSE b

\* the messages of api.rs and what to_string shows of an error: its
\* outermost context
MsgNetworkUnavailable == <<"network unavailable">>
MsgNetworkCheckFailed == <<"network check failed", ", sync cancelled">>
MsgTokenManager == <<"cannot create TokenManager">>
MsgAccessToken == <<"cannot get a valid access token">>
MsgUnreadCount == <<"cannot get the unread count">>
MsgReauthorize == <<"token invalid or expired", ", please re-authorize">>

to_string(e) == e.err.msg

----------------------------------------------------------------------------
(* ensure_network_available *)

\* the locals of the probe at its start; slept is the history of its sleeps
ProbeStart == [attempt |-> 0, delay_secs |-> 1, had_failure |-> FALSE, slept |-> << >>]

\* a request that got a success status, another status, an error, no answer
\* within PER_REQUEST_TIMEOUT_SECS
ProbeOutcomes == {"success", "status", "error", "timeout"}

\* the probe giving up one attempt later
probe_attempt_OneMore(p, outcome) ==
    LET a == p.attempt + 1
    IN  IF outcome = "success"
        THEN [done |-> TRUE, result |-> Ok(p.had_failure), sleep |-> 0,
              p |-> [p EXCEPT !.attempt = a]]
        ELSE IF a >= MAX_ATTEMPTS + 1
        THEN [done |-> TRUE, result |-> AErr(MsgNetworkUnavailable, "none"), sleep |-> 0,
              p |-> [p EXCEPT !.attempt = a, !.had_failure = TRUE]]
        ELSE [done |-> FALSE, result |-> OkUnit, sleep |-> p.delay_secs,
              p |-> [attempt |-> a, delay_secs |-> Min(p.delay_secs * 2, MAX_DELAY_SECS),
                     had_failure |-> TRUE, slept |-> Append(p.slept, p.delay_secs)]]

\* one turn of the probe's loop, from attempt += 1 to the return or to the
\* end of the sleep: whether the probe returned, its result, the seconds
\* slept and the locals afterwards
probe_attempt(p, outcome) ==
    LET a == p.attempt + 1
    IN  IF outcome = "success"
        THEN [done |-> TRUE, result |-> Ok(p.had_failure), sleep |-> 0,
              p |-> [p EXCEPT !.attempt = a]]
        ELSE IF a >= MAX_ATTEMPTS
        THEN [done |-> TRUE, result |-> AErr(MsgNetworkUnavailable, "none"), sleep |-> 0,
              p |-> [p EXCEPT !.attempt = a, !.had_failure = TRUE]]
        ELSE [done |-> FALSE, result |-> OkUnit, sleep |-> p.delay_secs,
              p |-> [attempt |-> a, delay_secs |-> Min(p.delay_secs * 2, MAX_DELAY_SECS),
                     had_failure |-> TRUE, slept |-> Append(p.slept, p.delay_secs)]]

----------------------------------------------------------------------------
(* GmailApiClient and AccountSyncInfo *)

\* GET labels/INBOX: messagesUnread (an Option), status 401, another status
UnreadResponses == {Ok({}), Ok({3}), Err("401"), Err("500")}

get_unread_count(resp) ==
    IF resp.ok THEN Ok(unwrap_or(Val(resp), 0))
    ELSE IF resp.err.msg = "401" THEN AErr(<<"token expired", ", refresh needed">>, "none")
    ELSE AErr(<<"Gmail Labels API error ", resp.err.msg>>, "none")

\* GET userinfo: the identity, a status, or a request that could not be sent
UserInfoResponses(email) ==
    {Ok([email |-> email, name |-> n, picture |-> pic]) :
        n \in {{}, {"name"}}, pic \in {{}, {"picture-url"}}}
        \cup {Err("401"), Err("500"), Err("send")}

get_user_info(resp) ==
    IF resp.ok THEN resp
    ELSE IF resp.err.msg = "send" THEN AErr(<<"user info request failed">>, "send")
    ELSE AErr(<<"UserInfo API error ", resp.err.msg>>, "none")

\* download_avatar_to_cache, and the avatar sync_account_info keeps
avatar_of(info, downloadOk) ==
    IF info.picture = {} THEN ""
    ELSE IF downloadOk THEN "local-path"
    ELSE unwrap_or(info.picture, "")

\* in an AccountSyncInfo error_message is << >> for None
\* the payload after a successful identity call
info_ok(acct, info, downloadOk, unread, had) ==
    [email |-> info.email, unread_count |-> unread,
     avatar_url |-> avatar_of(info, downloadOk),
     display_name |-> unwrap_or(info.name, acct.email),
     error_message |-> << >>, network_issue |-> had]

info_reauthorize_NoMessage(acct, unread, had) ==
    [email |-> acct.email, unread_count |-> unread, avatar_url |-> "",
     display_name |-> acct.email, error_message |-> << >>,
     network_issue |-> had]

\* the payload when the forced refresh or the retry failed
info_reauthorize(acct, unread, had) ==
    [email |-> acct.email, unread_count |-> unread, avatar_url |-> "",
     display_name |-> acct.email, error_message |-> MsgReauthorize,
     network_issue |-> had]

\* the payload after an identity failure other than 401
info_failed(acct, unread, had, error_str) ==
    [email |-> acct.email, unread_count |-> unread, avatar_url |-> "",
     display_name |-> acct.email,
     error_message |-> <<"cannot get user info: ">> \o error_str,
     network_issue |-> had]

\* api.rs line 361
is_unauthorized(error_str) == contains(error_str, "401")

----------------------------------------------------------------------------
(* SyncEngine: the running flag and the periodic task *)

\* history of one account's sync: token-endpoint requests sent, those sent
\* after a 401 of the identity call, identity requests sent, whether the
\* identity call answered 401, how the forced refresh, the get_valid_token
\* after it and the retry ended ("none" | "ok" | "failed")
NoAcc ==
    [token_calls |-> 0, post401_token_calls |-> 0, identity_calls |-> 0,
     got401 |-> FALSE, force |-> "none", reget |-> "none", retry |-> "none"]

\* history of one cycle: probe requests, token decryptions, token-endpoint
\* requests, provider API requests and storage writes made in it, whether
\* a probe used up its attempts and whether its load_accounts succeeded
NoCyc ==
    [probes |-> 0, decrypts |-> 0, token_calls |-> 0, api_calls |-> 0,
     saves |-> 0, exhausted |-> FALSE, load_ok |-> TRUE]

\* pc: "none" (no task) | "sleep" | "top" | "tick" | "probe" | "refresh" |
\*     "unread" | "userinfo" | "force" | "refresh2" | "retry" | "exited"
\* starts: tasks spawned; cycle: cycles started; timer_start, ticked: creation of the task's
\* interval and the ticks it has completed
\* env: what the machine allows during the run: deriving the key, reading
\* and writing the accounts file, loading the OAuth configuration
\* budget: the failed probe requests and the failed other requests that
\* the run may see
\* accounts, idx: the list loaded by the cycle and the account in progress
\* p, had, tm, updated, unread: locals of sync_account_info
\* cb: the callbacks of the cycle; dead: refresh tokens the token endpoint
\* answered invalid_grant or 401 for; dead_calls: requests sent with one
\* stop_at: the account in progress when the flag was last cleared, 0 if
\* none was
\* outages, outage_over: failed probe requests so far and whether the probe
\* they failed in has returned; faults: failed other requests so far
SyncEngine_new(env, budget) ==
    [running |-> FALSE, pc |-> "none", starts |-> 0, cycle |-> 0,
     timer_start |-> 0, ticked |-> 0,
     env |-> env, budget |-> budget, accounts |-> << >>, idx |-> 0,
     p |-> ProbeStart, had |-> FALSE, tm |-> OtherAccount, updated |-> {},
     unread |-> 0, cb |-> << >>, cyc |-> NoCyc, acc |-> NoAcc,
     dead |-> {}, dead_calls |-> 0, outages |-> 0, outage_over |-> FALSE,
     faults |-> 0, stop_at |-> 0]

\* the locals of sync_account_info once it has returned
drop_locals(s) ==
    [s EXCEPT !.p = ProbeStart, !.had = FALSE, !.tm = OtherAccount,
              !.updated = {}, !.unread = 0, !.acc = NoAcc]

\* the for loop takes the i-th account and calls sync_account_info, which
\* awaits its first probe request
begin_account(s, i) ==
    [s EXCEPT !.idx = i, !.pc = "probe", !.p = ProbeStart, !.had = FALSE,
              !.tm = s.accounts[i], !.updated = {}, !.unread = 0, !.acc = NoAcc]

sync_callback_Twice(cb, entry) == Append(Append(cb, entry), entry)

\* the callback is invoked; the history keeps the invocation
sync_callback(cb, entry) == Append(cb, entry)

is_network_abort_Any(err_str) == TRUE

\* sync/mod.rs line 133
is_network_abort(err_str) ==
    \/ contains(err_str, "network check failed")
    \/ contains(err_str, "network unavailable")

\* sync/mod.rs lines 100-142: sync_account_info returned res for the account
\* in progress; save the updated account, call back, go on or break.  The
\* history keeps of the payload its email, its error_message and its
\* network_issue.
after_account(s, file, res) ==
    LET acct == s.accounts[s.idx]
        saving == res.ok /\ Val(res).updated # {}
        sv == IF saving
              THEN save_account(unwrap_or(Val(res).updated, acct), file,
                                s.env.keyOk, s.env.readOk, s.env.writeOk)
              ELSE Ok(file)
        entry == [email |-> acct.email, ok |-> res.ok,
                  err_str |-> IF res.ok THEN << >> ELSE to_string(res),
                  info_email |-> IF res.ok THEN Val(res).info.email ELSE "",
                  error_message |-> IF res.ok THEN Val(res).info.error_message ELSE << >>,
                  network_issue |-> res.ok /\ Val(res).info.network_issue,
                  probe |-> s.p, acc |-> s.acc]
        brk == ~res.ok /\ is_network_abort(to_string(res))
        s1 == [s EXCEPT !.cb = sync_callback(@, entry),
                        !.cyc.saves = @ + (IF saving THEN 1 ELSE 0)]
    IN  [file |-> IF sv.ok THEN Val(sv) ELSE file,
         sync |-> IF brk \/ s.idx = Len(s.accounts)
                  THEN [drop_locals(s1) EXCEPT !.pc = "top"]
                  ELSE begin_account(s1, s.idx + 1)]

\* a refresh request goes to the token endpoint
send_refresh(s, pc) ==
    [s EXCEPT !.pc = pc,
              !.cyc.token_calls = @ + 1,
              !.acc.token_calls = @ + 1,
              !.acc.post401_token_calls = @ + (IF s.acc.got401 THEN 1 ELSE 0),
              !.dead_calls = @ + (IF s.tm.refresh_token.plain \in s.dead THEN 1 ELSE 0)]

\* the token endpoint answered resp and refresh_access_token went on to f
recv_refresh(s, resp, f) ==
    [s EXCEPT !.tm = f.account,
              !.cyc.saves = @ + f.saves,
              !.dead = IF ~resp.ok /\ resp.err.msg \in {"invalid_grant", "401"}
                       THEN @ \cup {s.tm.refresh_token.plain} ELSE @]

\* sync_account_info lines 317-334 once no refresh is pending: decrypt the
\* access token, note whether the account changed, send the unread request
with_token(s, file) ==
    LET d == get_valid_token_return(s.tm, OkUnit, s.env.keyOk)
        s1 == [s EXCEPT !.cyc.decrypts = @ + 1]
    IN  IF ~d.ok
        THEN after_account(s1, file, AErr(MsgAccessToken, d.err.msg))
        ELSE [file |-> file,
              sync |-> [s1 EXCEPT !.updated = IF s.tm.expires_at # s.accounts[s.idx].expires_at
                                              THEN {s.tm} ELSE {},
                                  !.pc = "unread",
                                  !.cyc.api_calls = @ + 1]]

after_probe_NoHad(s, file, t, had) ==
    LET s1 == [s EXCEPT !.had = FALSE]
    IN  IF ~s.env.configOk
        THEN after_account(s1, file, AErr(MsgTokenManager, "load OAuth config"))
        ELSE IF needs_refresh(s1.tm, t)
        THEN LET rt == refresh_begin(s1.tm, s.env.keyOk)
                 s2 == [s1 EXCEPT !.cyc.decrypts = @ + 1]
             IN  IF ~rt.ok
                 THEN after_account(s2, file, AErr(MsgAccessToken, rt.err.msg))
                 ELSE [file |-> file, sync |-> send_refresh(s2, "refresh")]
        ELSE with_token(s1, file)

\* sync_account_info lines 303-320, from the probe's Ok(had) to the first
\* request awaited
after_probe(s, file, t, had) ==
    LET s1 == [s EXCEPT !.had = had]
    IN  IF ~s.env.configOk
        THEN after_account(s1, file, AErr(MsgTokenManager, "load OAuth config"))
        ELSE IF needs_refresh(s1.tm, t)
        THEN LET rt == refresh_begin(s1.tm, s.env.keyOk)
                 s2 == [s1 EXCEPT !.cyc.decrypts = @ + 1]
             IN  IF ~rt.ok
                 THEN after_account(s2, file, AErr(MsgAccessToken, rt.err.msg))
                 ELSE [file |-> file, sync |-> send_refresh(s2, "refresh")]
        ELSE with_token(s1, file)

\* the result of sync_account_info when the 401 could not be repaired
reauthorize(s) ==
    Ok([info |-> info_reauthorize(s.accounts[s.idx], s.unread, s.had),
        updated |-> s.updated])

\* api.rs lines 369-371: get_valid_token after the forced refresh gave a
\* token that needs no refresh; decrypt it and retry the identity call
retry_with_token(s, file) ==
    LET d == get_valid_token_return(s.tm, OkUnit, s.env.keyOk)
        s1 == [s EXCEPT !.cyc.decrypts = @ + 1]
    IN  IF ~d.ok
        THEN after_account([s1 EXCEPT !.acc.reget = "failed"], file,
                           reauthorize(s1))
        ELSE [file |-> file,
              sync |-> [s1 EXCEPT !.pc = "retry",
                                  !.acc.reget = "ok",
                                  !.acc.identity_calls = @ + 1,
                                  !.cyc.api_calls = @ + 1]]

\* the task is between two cycles or has ended
SyncBetweenCycles == sync.pc \in {"top", "tick", "exited"}

\* the task is inside sync_account_info for the account idx
SyncInAccount ==
    sync.pc \in {"probe", "refresh", "unread", "userinfo", "force", "refresh2", "retry"}

\* the variables of the other parts
sync_frame == <<ticks, tm_account, tm_pc, tm_op, call, unsaved, auth, crypto, ondemand, race, gmail, engine>>

\* SyncEngine::start on an engine that is not running and has no live task:
\* set the flag and spawn the task, which creates its timer and has run no
\* cycle yet
SyncEngine_start ==
    /\ ~sync.running
    /\ sync.pc \in {"none", "exited"}
    /\ sync.starts < MaxStarts
    /\ sync' = [sync EXCEPT !.running = TRUE, !.pc = "sleep", !.starts = @ + 1,
                            !.stop_at = 0,
                            !.timer_start = now, !.ticked = 0,
                            !.accounts = << >>, !.idx = 0, !.cb = << >>,
                            !.cyc = NoCyc]
    /\ UNCHANGED <<now, store, issued>>
    /\ UNCHANGED sync_frame

\* SyncEngine::stop and SyncEngine::request_stop
SyncEngine_stop ==
    /\ sync.running
    /\ sync' = [sync EXCEPT !.running = FALSE,
                            !.stop_at = IF SyncInAccount THEN sync.idx ELSE 0]
    /\ UNCHANGED <<now, store, issued>>
    /\ UNCHANGED sync_frame

\* the sleep before the first cycle
SyncFirstSleep ==
    /\ sync.pc = "sleep"
    /\ now' = now + FIRST_SYNC_DELAY_SECS
    /\ sync' = [sync EXCEPT !.pc = "top"]
    /\ UNCHANGED <<store, issued>>
    /\ UNCHANGED sync_frame

SyncLoopTop_NoCheck ==
    /\ sync.pc = "top"
    /\ sync.cycle < MaxCycles
    /\ sync' = [sync EXCEPT !.pc = "tick"]
    /\ UNCHANGED <<now, store, issued>>
    /\ UNCHANGED sync_frame

\* the top of the loop: read the flag, leave or wait for the tick
SyncLoopTop ==
    /\ sync.pc = "top"
    /\ IF ~sync.running
       THEN sync' = [sync EXCEPT !.pc = "exited"]
       ELSE /\ sync.cycle < MaxCycles
            /\ sync' = [sync EXCEPT !.pc = "tick"]
    /\ UNCHANGED <<now, store, issued>>
    /\ UNCHANGED sync_frame

\* the instant at which the n-th tick (from 0) of the interval completes
tick_instant(t, timer_start, n) == Max(t, timer_start + SYNC_INTERVAL_SECS * n)

SyncTick_LoadFailureEnds ==
    /\ sync.pc = "tick"
    /\ LET loaded == load_accounts(store, sync.env.readOk)
          s0 == [sync EXCEPT !.cycle = @ + 1, !.ticked = @ + 1, !.cb = << >>,
                             !.cyc = [NoCyc EXCEPT !.load_ok = loaded.ok],
                             !.accounts = IF loaded.ok THEN Val(loaded) ELSE << >>,
                             !.idx = 0]
      IN  sync' = IF ~loaded.ok THEN [s0 EXCEPT !.pc = "exited"]
                  ELSE IF s0.accounts = << >> THEN [s0 EXCEPT !.pc = "top"]
                  ELSE begin_account(s0, 1)
    /\ now' = tick_instant(now, sync.timer_start, sync.ticked)
    /\ UNCHANGED <<store, issued>>
    /\ UNCHANGED sync_frame

\* the tick completes and the cycle starts: load the accounts and take the
\* first one
SyncTick ==
    /\ sync.pc = "tick"
    /\ LET loaded == load_accounts(store, sync.env.readOk)
          s0 == [sync EXCEPT !.cycle = @ + 1, !.ticked = @ + 1, !.cb = << >>,
                             !.cyc = [NoCyc EXCEPT !.load_ok = loaded.ok],
                             !.accounts = IF loaded.ok THEN Val(loaded) ELSE << >>,
                             !.idx = 0]
      IN  sync' = IF ~loaded.ok \/ s0.accounts = << >>
                  THEN [s0 EXCEPT !.pc = "top"]
                  ELSE begin_account(s0, 1)
    /\ now' = tick_instant(now, sync.timer_start, sync.ticked)
    /\ UNCHANGED <<store, issued>>
    /\ UNCHANGED sync_frame

\* a probe request is answered: the probe returns or sleeps
SyncProbe ==
    /\ sync.pc = "probe"
    /\ \E outcome \in ProbeOutcomes :
         LET a == probe_attempt(sync.p, outcome)
             s1 == [sync EXCEPT !.p = a.p,
                                !.outages = @ + (IF outcome = "success" THEN 0 ELSE 1),
                                !.outage_over = @ \/ (a.done /\ a.p.had_failure),
                                !.cyc.probes = @ + 1,
                                !.cyc.exhausted = @ \/ (a.done /\ ~a.result.ok)]
             r == IF ~a.done THEN [file |-> store, sync |-> s1]
                  ELSE IF ~a.result.ok
                  THEN after_account(s1, store,
                                     AErr(MsgNetworkCheckFailed, "network unavailable"))
                  ELSE after_probe(s1, store, now, Val(a.result))
         IN  /\ outcome # "success" => ~sync.outage_over /\ sync.outages < sync.budget.outages
             /\ sync' = r.sync
             /\ store' = r.file
             /\ now' = now + a.sleep
    /\ UNCHANGED issued
    /\ UNCHANGED sync_frame

\* what the token endpoint may answer to the next refresh request: after
\* MaxIssued tokens it only refuses
SyncRefreshResponses ==
    IF issued < MaxIssued THEN RefreshResponses(issued + 1)
    ELSE {Err(e) : e \in RefreshErrors}

\* a failed request uses up one of the run's faults; the refusals of a token
\* endpoint that has issued MaxIssued tokens come on top of them
count_fault(s, resp) ==
    [s EXCEPT !.faults = IF resp.ok \/ s.faults >= s.budget.faults THEN @ ELSE @ + 1]

\* refresh_access_token of the task's TokenManager from the response on
sync_refresh_finish(s, file, resp, t) ==
    refresh_finish(s.tm, file, resp, t, s.env.keyOk, s.env.readOk, s.env.writeOk)

\* the token endpoint answers the refresh that get_valid_token started
SyncRefreshReturn ==
    /\ sync.pc = "refresh"
    /\ \E resp \in SyncRefreshResponses :
         LET f == sync_refresh_finish(sync, store, resp, now)
             s1 == recv_refresh(sync, resp, f)
             r == IF ~f.result.ok
                  THEN after_account(s1, f.file, AErr(MsgAccessToken, f.result.err.msg))
                  ELSE with_token(s1, f.file)
         IN  /\ ~resp.ok => sync.faults < sync.budget.faults \/ issued >= MaxIssued
             /\ sync' = count_fault(r.sync, resp)
             /\ store' = r.file
             /\ issued' = IF resp.ok THEN issued + 1 ELSE issued
    /\ UNCHANGED now
    /\ UNCHANGED sync_frame

\* the unread request is answered; on success the identity request is sent
SyncUnreadReturn ==
    /\ sync.pc = "unread"
    /\ \E resp \in UnreadResponses :
         LET u == get_unread_count(resp)
             r == IF ~u.ok
                  THEN after_account(sync, store, AErr(MsgUnreadCount, resp.err.msg))
                  ELSE [file |-> store,
                        sync |-> [sync EXCEPT !.unread = Val(u),
                                              !.pc = "userinfo",
                                              !.acc.identity_calls = @ + 1,
                                              !.cyc.api_calls = @ + 1]]
         IN  /\ ~resp.ok => sync.faults < sync.budget.faults
             /\ sync' = count_fault(r.sync, resp)
             /\ store' = r.file
    /\ UNCHANGED <<now, issued>>
    /\ UNCHANGED sync_frame

\* the identity request is answered: done, or on 401 force_refresh up to
\* its request, or the degraded result
SyncUserInfoReturn ==
    /\ sync.pc = "userinfo"
    /\ \E resp \in UserInfoResponses(sync.accounts[sync.idx].email),
          downloadOk \in BOOLEAN :
         LET acct == sync.accounts[sync.idx]
             u == get_user_info(resp)
             r == IF u.ok
                  THEN after_account(sync, store,
                           Ok([info |-> info_ok(acct, Val(u), downloadOk, sync.unread, sync.had),
                               updated |-> sync.updated]))
                  ELSE IF is_unauthorized(to_string(u))
                  THEN LET s1 == [sync EXCEPT !.acc.got401 = TRUE,
                                              !.cyc.decrypts = @ + 1]
                           rt == refresh_begin(sync.tm, sync.env.keyOk)
                       IN  IF ~rt.ok
                           THEN after_account([s1 EXCEPT !.acc.force = "failed"], store,
                                              reauthorize(s1))
                           ELSE [file |-> store, sync |-> send_refresh(s1, "force")]
                  ELSE after_account(sync, store,
                           Ok([info |-> info_failed(acct, sync.unread, sync.had, to_string(u)),
                               updated |-> sync.updated]))
         IN  /\ ~resp.ok => sync.faults < sync.budget.faults
             /\ sync' = count_fault(r.sync, resp)
             /\ store' = r.file
    /\ UNCHANGED <<now, issued>>
    /\ UNCHANGED sync_frame

\* the token endpoint answers the forced refresh; on success get_valid_token
\* runs up to its own refresh request or to the retried identity request
SyncForceReturn ==
    /\ sync.pc = "force"
    /\ \E resp \in SyncRefreshResponses :
         LET f == sync_refresh_finish(sync, store, resp, now)
             s1 == recv_refresh(sync, resp, f)
             s2 == [s1 EXCEPT !.acc.force = "ok"]
             s3 == [s2 EXCEPT !.cyc.decrypts = @ + 1]
             r == IF ~f.result.ok
                  THEN after_account([s1 EXCEPT !.acc.force = "failed"], f.file,
                                     reauthorize(s1))
                  ELSE IF needs_refresh(s2.tm, now)
                  THEN IF ~refresh_begin(s2.tm, sync.env.keyOk).ok
                       THEN after_account([s3 EXCEPT !.acc.reget = "failed"], f.file,
                                          reauthorize(s3))
                       ELSE [file |-> f.file, sync |-> send_refresh(s3, "refresh2")]
                  ELSE retry_with_token(s2, f.file)
         IN  /\ ~resp.ok => sync.faults < sync.budget.faults \/ issued >= MaxIssued
             /\ sync' = count_fault(r.sync, resp)
             /\ store' = r.file
             /\ issued' = IF resp.ok THEN issued + 1 ELSE issued
    /\ UNCHANGED now
    /\ UNCHANGED sync_frame

\* the token endpoint answers the refresh that the get_valid_token after
\* the forced refresh started
SyncRefresh2Return ==
    /\ sync.pc = "refresh2"
    /\ \E resp \in SyncRefreshResponses :
         LET f == sync_refresh_finish(sync, store, resp, now)
             s1 == recv_refresh(sync, resp, f)
             r == IF ~f.result.ok
                  THEN after_account([s1 EXCEPT !.acc.reget = "failed"], f.file,
                                     reauthorize(s1))
                  ELSE retry_with_token(s1, f.file)
         IN  /\ ~resp.ok => sync.faults < sync.budget.faults \/ issued >= MaxIssued
             /\ sync' = count_fault(r.sync, resp)
             /\ store' = r.file
             /\ issued' = IF resp.ok THEN issued + 1 ELSE issued
    /\ UNCHANGED now
    /\ UNCHANGED sync_frame

\* the retried identity request is answered
SyncRetryReturn ==
    /\ sync.pc = "retry"
    /\ \E resp \in UserInfoResponses(sync.accounts[sync.idx].email),
          downloadOk \in BOOLEAN :
         LET acct == sync.accounts[sync.idx]
             u == get_user_info(resp)
             r == IF u.ok
                  THEN after_account([sync EXCEPT !.acc.retry = "ok"], store,
                           Ok([info |-> info_ok(acct, Val(u), downloadOk, sync.unread, sync.had),
                               updated |-> sync.updated]))
                  ELSE after_account([sync EXCEPT !.acc.retry = "failed"], store,
                                     reauthorize(sync))
         IN  /\ ~resp.ok => sync.faults < sync.budget.faults
             /\ sync' = count_fault(r.sync, resp)
             /\ store' = r.file
    /\ UNCHANGED <<now, issued>>
    /\ UNCHANGED sync_frame

\* the stored accounts at the start: none, or a@ (token expired or fresh,
\* sealed on this machine or on another) and b@, in either order
SyncInitialStores ==
    {<< >>}
        \cup {<<InitialAccount(ttl, foreign), OtherAccount>> :
                 ttl \in {-3600, 3600}, foreign \in BOOLEAN}
        \cup {<<OtherAccount, InitialAccount(ttl, FALSE)>> : ttl \in {-3600, 3600}}

\* the machine: everything works, or one of the four things never does
SyncEnvs ==
    LET all == [keyOk |-> TRUE, readOk |-> TRUE, writeOk |-> TRUE, configOk |-> TRUE]
    IN  {all, [all EXCEPT !.keyOk = FALSE], [all EXCEPT !.readOk = FALSE],
         [all EXCEPT !.writeOk = FALSE], [all EXCEPT !.configOk = FALSE]}

SyncBudgets ==
    {[outages |-> MaxOutages, faults |-> 0], [outages |-> 0, faults |-> MaxFaults]}

\* an engine that has not been started, over the stored accounts of files
InitSyncOver(files) ==
    /\ now = 0
    /\ ticks = 0
    /\ tm_account = OtherAccount
    /\ tm_pc = "idle"
    /\ tm_op = "none"
    /\ store \in files
    /\ issued = 0
    /\ call = NoCall(tm_account, store)
    /\ unsaved = NoUnsaved
    /\ auth = AuthIdle
    /\ crypto = CryptoIdle
    /\ ondemand = OndemandIdle
    /\ race = RaceIdle
    /\ gmail = GmailIdle
    /\ engine = EngineIdle
    /\ sync \in {SyncEngine_new(env, budget) : env \in SyncEnvs, budget \in SyncBudgets}

InitSync == InitSyncOver(SyncInitialStores)

\* a step of the periodic task
SyncTask ==
    \/ SyncFirstSleep
    \/ SyncLoopTop
    \/ SyncTick
    \/ SyncProbe
    \/ SyncRefreshReturn
    \/ SyncUnreadReturn
    \/ SyncUserInfoReturn
    \/ SyncForceReturn
    \/ SyncRefresh2Return
    \/ SyncRetryReturn

NextSync ==
    \/ SyncEngine_start
    \/ SyncEngine_stop
    \/ SyncTask

SpecSync == InitSync /\ [][NextSync]_vars

\* the task is scheduled and every request and sleep ends (the task has one
\* step to take at a time); nothing obliges anybody to call start or stop
SyncFairness == WF_vars(SyncTask)

\* the stored accounts the task's progress is followed over: none, or a@
\* with an expired token and b@
SyncLiveStores == {<< >>, <<InitialAccount(-3600, FALSE), OtherAccount>>}

SpecSyncLive == InitSyncOver(SyncLiveStores) /\ [][NextSync]_vars /\ SyncFairness

----------------------------------------------------------------------------
\* C12: if a network probe uses up all its attempts during a cycle, the cycle
\* has touched no account: no token was decrypted or refreshed, no provider
\* API request was made and no account was persisted in that cycle, and the
\* callback reports the network error.
C12_ExhaustedProbeTouchesNoAccount ==
    sync.cyc.exhausted =>
        /\ sync.cyc.decrypts = 0
        /\ sync.cyc.token_calls = 0
        /\ sync.cyc.api_calls = 0
        /\ sync.cyc.saves = 0
        /\ sync.cb # << >>
        /\ is_network_abort(sync.cb[Len(sync.cb)].err_str)

----------------------------------------------------------------------------
\* C13: within a cycle a failure of an account that is not the network error
\* (TokenManager construction, token decryption or refresh, unread-count
\* request) does not stop the cycle: the loop goes on to the next account of
\* the loaded list; the cycle ends before the end of the list only after a
\* network error, which is then the last result of the cycle.
C13_FailureIsolation ==
    LET n == Len(sync.cb)
    IN  /\ SyncInAccount => sync.idx = n + 1 /\ sync.idx <= Len(sync.accounts)
        /\ \A i \in 1..n :
              (~sync.cb[i].ok /\ sync.cb[i].err_str # MsgNetworkCheckFailed)
              => /\ sync.cb[i].err_str \in {MsgTokenManager, MsgAccessToken, MsgUnreadCount}
                 /\ i < Len(sync.accounts) => n > i \/ (SyncInAccount /\ sync.idx = i + 1)
        /\ (SyncBetweenCycles /\ n < Len(sync.accounts))
           => n > 0 /\ sync.cb[n].err_str = MsgNetworkCheckFailed
        /\ \A i \in 1..n : sync.cb[i].err_str = MsgNetworkCheckFailed => i = n /\ SyncBetweenCycles

\* the first account failed at the unread request and the second account
\* has been synced in the same cycle
C13_Witness ==
    /\ Len(sync.cb) = 2
    /\ sync.cb[1].err_str = MsgUnreadCount
    /\ sync.cb[2].ok

----------------------------------------------------------------------------
\* C14: in a cycle the callback is invoked once per account of the loaded
\* list, in the order of the list: never twice for the same account, each
\* time with a success payload or with an error string, and once the cycle
\* has ended exactly once for every account, except for those after an
\* account whose result was the network error.
C14_OneCallbackPerAccount ==
    LET n == Len(sync.cb)
    IN  /\ n <= Len(sync.accounts)
        /\ \A i \in 1..n :
              /\ sync.cb[i].email = sync.accounts[i].email
              /\ sync.cb[i].ok <=> sync.cb[i].err_str = << >>
        /\ \A i, j \in 1..n : i # j => sync.cb[i].email # sync.cb[j].email
        /\ (/\ SyncBetweenCycles
            /\ \A i \in 1..n : sync.cb[i].err_str # MsgNetworkCheckFailed)
           => n = Len(sync.accounts)

\* a cycle over two accounts has ended with one success and one error
C14_Witness ==
    /\ SyncBetweenCycles
    /\ Len(sync.accounts) = 2
    /\ Len(sync.cb) = 2
    /\ sync.cb[1].ok
    /\ ~sync.cb[2].ok

----------------------------------------------------------------------------
\* the sleeps of a probe start at 1 second, double each time and stay within
\* the cap, so never decrease
BackoffDelays(slept) ==
    /\ Len(slept) > 0 => slept[1] = 1
    /\ \A i \in 1..Len(slept) : slept[i] <= MAX_DELAY_SECS
    /\ \A i \in 1..(Len(slept) - 1) :
          /\ slept[i + 1] = Min(2 * slept[i], MAX_DELAY_SECS)
          /\ slept[i + 1] >= slept[i]

\* C15: a probe whose attempts all fail makes exactly 4 attempts and returns
\* the network error; the delay slept between two attempts starts at 1 s,
\* doubles, never exceeds 30 s and never decreases; nothing is slept after
\* the last attempt; a successful attempt ends the probe at once.
C15_ProbeBackoff ==
    /\ BackoffDelays(sync.p.slept)
    /\ sync.pc = "probe" =>
          /\ sync.p.attempt < MAX_ATTEMPTS
          /\ Len(sync.p.slept) = sync.p.attempt
          /\ sync.p.had_failure <=> sync.p.attempt > 0
    /\ \A i \in 1..Len(sync.cb) :
          LET p == sync.cb[i].probe
          IN  /\ BackoffDelays(p.slept)
              /\ p.attempt \in 1..MAX_ATTEMPTS
              /\ Len(p.slept) = p.attempt - 1
              /\ IF sync.cb[i].err_str = MsgNetworkCheckFailed
                 THEN p.attempt = MAX_ATTEMPTS /\ p.had_failure /\ p.slept = <<1, 2, 4>>
                 ELSE p.had_failure <=> p.attempt > 1

\* a probe has failed four times and the cycle has reported the network error
C15_Witness ==
    \E i \in 1..Len(sync.cb) :
        /\ sync.cb[i].err_str = MsgNetworkCheckFailed
        /\ sync.cb[i].probe.attempt = 4
        /\ sync.cb[i].probe.slept = <<1, 2, 4>>

----------------------------------------------------------------------------
\* the histories of the account syncs of the cycle: the finished ones and
\* the one in progress
SyncAccHistories ==
    {sync.cb[i].acc : i \in 1..Len(sync.cb)} \cup {sync.acc}

\* C16: after the identity request was answered 401, the account's sync
\* sends at most one refresh request to the token endpoint (the forced one)
\* and at most one more identity request (the retry), whatever TTL the
\* refreshed token carries; when the forced refresh succeeded, exactly one
\* of each once the retry has been sent.
C16_OneForcedRefreshOneRetry ==
    \A h \in SyncAccHistories :
        h.got401 =>
            /\ h.post401_token_calls <= 1
            /\ h.identity_calls <= 2
            /\ h.retry # "none" => h.post401_token_calls = 1 /\ h.identity_calls = 2

----------------------------------------------------------------------------
\* C17: when the identity request was answered 401 and the forced refresh,
\* the get_valid_token after it or the retried identity request failed, the
\* callback gets a success payload whose error_message is the re-authorize
\* text and whose email is the stored email of the account.
C17_ReauthorizeReported ==
    \A i \in 1..Len(sync.cb) :
        LET e == sync.cb[i]
        IN  (/\ e.acc.got401
             /\ e.acc.force = "failed" \/ e.acc.reget = "failed" \/ e.acc.retry = "failed")
            => /\ e.ok
               /\ e.error_message = MsgReauthorize
               /\ e.info_email = sync.accounts[i].email
               /\ e.email = sync.accounts[i].email

\* the forced refresh succeeded and the retried identity request failed
C17_Witness ==
    \E i \in 1..Len(sync.cb) :
        /\ sync.cb[i].acc.got401
        /\ sync.cb[i].acc.force = "ok"
        /\ sync.cb[i].acc.retry = "failed"

----------------------------------------------------------------------------
\* C18: once the token endpoint has answered a refresh of an account with
\* invalid_grant or 401, no later request is sent to the token endpoint with
\* that refresh token.
C18_DeadRefreshTokenNotRetried == sync.dead_calls = 0

----------------------------------------------------------------------------
\* C19: clearing the flag does not cut an iteration short: the task leaves
\* only from the top of the loop, having read the flag cleared, and the cycle
\* it leaves after has called back for every account of its list (up to a
\* network error); once the flag is cleared the task reaches the top of the
\* loop and terminates; after that it invokes no callback and touches
\* neither the storage nor the token endpoint.
C19_CooperativeCancellation ==
    /\ [][(sync.pc # "exited" /\ sync'.pc = "exited")
            => (sync.pc = "top" /\ ~sync.running /\ sync'.cb = sync.cb)]_vars
    /\ [](sync.pc = "exited" =>
            \/ Len(sync.cb) = Len(sync.accounts)
            \/ /\ sync.cb # << >>
               /\ sync.cb[Len(sync.cb)].err_str = MsgNetworkCheckFailed)
    /\ [][(sync.pc = "exited" /\ sync'.pc = "exited")
            => (sync'.cb = sync.cb /\ store' = store /\ issued' = issued)]_vars
    /\ (~sync.running /\ sync.pc \notin {"none", "exited"}) ~> (sync.pc = "exited")

\* the flag was cleared while the first of two accounts was in progress; the
\* second account was synced all the same and the task has terminated
C19_Witness ==
    /\ sync.pc = "exited"
    /\ sync.stop_at = 1
    /\ Len(sync.cb) = 2
    /\ sync.cb[2].ok

----------------------------------------------------------------------------
\* C20: the task ends only by reading the flag cleared.  While the flag
\* stays set, whatever the outcome of a cycle (load failure, empty list,
\* errors of accounts, network error) the task comes back to the top of the
\* loop and starts a further cycle (as far as cycles are followed).
C20_LoopEndsOnlyByFlag ==
    /\ [][(sync'.pc = "exited" /\ sync.pc # "exited")
            => (sync.pc = "top" /\ ~sync.running)]_vars
    /\ \A n \in 0..(MaxCycles - 1) :
          (sync.pc \notin {"none", "exited"} /\ sync.cycle = n)
              ~> (sync.cycle > n \/ ~sync.running)

\* a second cycle has started, the flag still set, after a cycle that the
\* network error cut short
C20_Witness ==
    /\ sync.running
    /\ sync.cycle = 2
    /\ sync.pc = "probe"
    /\ sync.cb = << >>
    /\ sync.outage_over
    /\ sync.outages = MAX_ATTEMPTS

----------------------------------------------------------------------------
(* Part 4.  src/sync/mod.rs: the calls start, stop and request_stop on one   *)
(* SyncEngine, made from any thread, and the loop tasks that start has      *)
(* spawned.  The body of a cycle (Part 3) is one phase of a task here.      *)

\* tasks followed
MaxTasks == 2

\* SyncEngine::new: the flag is false and no task has been spawned
Engine_new == [pc |-> "engine", running |-> FALSE, starting |-> 0, refused |-> 0,
               tasks |-> << >>]

\* the task as handle.spawn creates it: it sleeps before its first cycle
NewTask == [pc |-> "sleep", cycles |-> 0]

\* the frame of the engine's actions
engine_frame ==
    <<now, ticks, tm_account, tm_pc, tm_op, store, issued, call, unsaved, auth, sync,
      crypto, ondemand, race, gmail>>

\* start, up to the release of the read lock: a call that reads the flag set
\* returns, another one goes on to the write
Engine_start_read ==
    /\ IF engine.running
       THEN /\ engine.refused < MaxTasks
            /\ engine' = [engine EXCEPT !.refused = @ + 1]
       ELSE /\ engine.starting + Len(engine.tasks) < MaxTasks
            /\ engine' = [engine EXCEPT !.starting = @ + 1]
    /\ UNCHANGED engine_frame

\* start, from the write lock on: the flag is set and the task is spawned
Engine_start_spawn ==
    /\ engine.starting > 0
    /\ engine' = [engine EXCEPT !.running = TRUE, !.starting = @ - 1,
                                !.tasks = Append(@, NewTask)]
    /\ UNCHANGED engine_frame

Engine_stop ==
    /\ engine' = [engine EXCEPT !.running = FALSE]
    /\ UNCHANGED engine_frame

Engine_request_stop ==
    /\ engine' = [engine EXCEPT !.running = FALSE]
    /\ UNCHANGED engine_frame

\* the sleep before the first cycle is over
TaskFirstSleep(i) ==
    /\ engine.tasks[i].pc = "sleep"
    /\ engine' = [engine EXCEPT !.tasks[i].pc = "top"]
    /\ UNCHANGED engine_frame

\* the top of the loop: the task reads the flag and ends when it is cleared,
\* else it awaits its timer
TaskLoopTop(i) ==
    /\ engine.tasks[i].pc = "top"
    /\ IF ~engine.running
       THEN engine' = [engine EXCEPT !.tasks[i].pc = "exited"]
       ELSE /\ engine.tasks[i].cycles < MaxCycles
            /\ engine' = [engine EXCEPT !.tasks[i].pc = "tick"]
    /\ UNCHANGED engine_frame

\* the tick completes and the cycle of the task begins
TaskTick(i) ==
    /\ engine.tasks[i].pc = "tick"
    /\ engine' = [engine EXCEPT !.tasks[i].pc = "cycle", !.tasks[i].cycles = @ + 1]
    /\ UNCHANGED engine_frame

\* the cycle of the task is over: the loop body has come to its end
TaskCycleEnd(i) ==
    /\ engine.tasks[i].pc = "cycle"
    /\ engine' = [engine EXCEPT !.tasks[i].pc = "top"]
    /\ UNCHANGED engine_frame

InitEngine ==
    /\ now = 0
    /\ ticks = 0
    /\ tm_account = OtherAccount
    /\ tm_pc = "idle"
    /\ tm_op = "none"
    /\ store = << >>
    /\ issued = 0
    /\ call = NoCall(tm_account, store)
    /\ unsaved = NoUnsaved
    /\ auth = AuthIdle
    /\ sync = SyncIdle
    /\ crypto = CryptoIdle
    /\ ondemand = OndemandIdle
    /\ race = RaceIdle
    /\ gmail = GmailIdle
    /\ engine = Engine_new

NextEngine ==
    \/ Engine_start_read
    \/ Engine_start_spawn
    \/ Engine_stop
    \/ Engine_request_stop
    \/ \E i \in DOMAIN engine.tasks :
          TaskFirstSleep(i) \/ TaskLoopTop(i) \/ TaskTick(i) \/ TaskCycleEnd(i)

SpecEngine == InitEngine /\ [][NextEngine]_vars

\* the tasks that have not ended, and those inside a cycle
AliveTasks == {i \in DOMAIN engine.tasks : engine.tasks[i].pc # "exited"}

TasksInCycle == {i \in DOMAIN engine.tasks : engine.tasks[i].pc = "cycle"}

----------------------------------------------------------------------------
\* C21: whatever the calls of start, stop and request_stop on one engine,
\* at most one loop task is alive and at most one periodic cycle is in
\* progress.
C21_PeriodicCyclesNeverOverlap ==
    /\ Cardinality(AliveTasks) <= 1
    /\ Cardinality(TasksInCycle) <= 1

----------------------------------------------------------------------------
(* Part 5.  src/mail/gmail/types.rs and src/config/storage.rs: the          *)
(* operations on a GmailAccount value (new, update_access_token), how it is *)
(* written to the account file (save_account) and read back                 *)
(* (load_accounts).  gmail.account is the value a caller holds, gmail.last  *)
(* the last operation with its inputs and its result.                       *)

\* operations followed
MaxOps == 4

Emails == {"a@gmail.com", "b@gmail.com"}

\* expires_in_seconds given to new and to update_access_token
Ttls == {0, 3600}

\* threshold_minutes given to is_token_expiring
Thresholds == {0, 5, 10, 60, 120}

\* a string that lacks the prefix, of text s
PlainString(s) == [prefix |-> "", key |-> "none", plain |-> s]

\* records of a file that this program did not write: a token field in
\* plaintext
PlainAccessRecord == [OtherAccount EXCEPT !.access_token = PlainString(0)]

PlainRefreshRecord ==
    [InitialAccount(3600, FALSE) EXCEPT !.refresh_token = PlainString("refresh-a")]

\* contents of accounts.toml at the start
StoredFiles ==
    { << >>,
      <<OtherAccount>>,
      <<InitialAccount(3600, TRUE), OtherAccount>>,
      <<PlainAccessRecord>>,
      <<OtherAccount, PlainRefreshRecord>> }

\* both token fields of the account have the prefix
both_encrypted(a) == is_encrypted(a.access_token) /\ is_encrypted(a.refresh_token)

NoOp ==
    [op |-> "none", ok |-> TRUE, err |-> "none", self |-> {}, made |-> {},
     file |-> << >>, t |-> 0, token |-> 0, ttl |-> 0, keys |-> <<TRUE, TRUE>>,
     readOk |-> TRUE]

Gmail_start(file) == [pc |-> "gmail", account |-> {}, ops |-> 0, file0 |-> file, last |-> NoOp]

gmail_frame ==
    <<ticks, tm_account, tm_pc, tm_op, call, unsaved, auth, sync, crypto, ondemand, race, engine>>

\* a caller constructs an account: it holds the new value when there is one
GmailNew ==
    /\ gmail.ops < MaxOps
    /\ \E email \in Emails, ttl \in Ttls, keyOk \in BOOLEAN, keyOk2 \in BOOLEAN :
         LET r == GmailAccount_new(email, email, 0, "refresh-a", ttl, now, keyOk, keyOk2)
         IN  gmail' = [gmail EXCEPT
                 !.ops = @ + 1,
                 !.account = IF r.ok THEN r.val ELSE @,
                 !.last = [NoOp EXCEPT !.op = "new", !.ok = r.ok, !.err = r.err.msg,
                                       !.self = gmail.account, !.made = r.val,
                                       !.file = store, !.t = now, !.ttl = ttl,
                                       !.keys = <<keyOk, keyOk2>>]]
    /\ UNCHANGED <<now, store, issued>>
    /\ UNCHANGED gmail_frame

\* update_access_token on the account held, with the next token that the
\* token endpoint issues
GmailUpdate ==
    /\ gmail.ops < MaxOps
    /\ gmail.account # {}
    /\ issued < MaxIssued
    /\ issued' = issued + 1
    /\ \E ttl \in Ttls, keyOk \in BOOLEAN :
         LET self == CHOOSE a \in gmail.account : TRUE
             new_token == issued + 1
             r == update_access_token(self, new_token, ttl, now, keyOk)
         IN  gmail' = [gmail EXCEPT
                 !.ops = @ + 1,
                 !.account = IF r.ok THEN r.val ELSE @,
                 !.last = [NoOp EXCEPT !.op = "update", !.ok = r.ok, !.err = r.err.msg,
                                       !.self = gmail.account, !.made = r.val,
                                       !.file = store, !.t = now, !.token = new_token,
                                       !.ttl = ttl, !.keys = <<keyOk, keyOk>>]]
    /\ UNCHANGED <<now, store>>
    /\ UNCHANGED gmail_frame

\* save_account of the account held
GmailSave ==
    /\ gmail.ops < MaxOps
    /\ gmail.account # {}
    /\ \E keyOk \in BOOLEAN, readOk \in BOOLEAN, writeOk \in BOOLEAN :
         LET self == CHOOSE a \in gmail.account : TRUE
             r == save_account(self, store, keyOk, readOk, writeOk)
         IN  /\ store' = IF r.ok THEN Val(r) ELSE store
             /\ gmail' = [gmail EXCEPT
                   !.ops = @ + 1,
                   !.last = [NoOp EXCEPT !.op = "save", !.ok = r.ok, !.err = r.err.msg,
                                         !.self = gmail.account, !.file = store,
                                         !.t = now, !.readOk = readOk]]
    /\ UNCHANGED <<now, issued>>
    /\ UNCHANGED gmail_frame

\* load_accounts; the caller goes on with one of the accounts returned
GmailLoad ==
    /\ gmail.ops < MaxOps
    /\ \E readOk \in BOOLEAN :
         LET r == load_accounts(store, readOk)
             got == IF r.ok THEN {Val(r)[i] : i \in DOMAIN Val(r)} ELSE {}
         IN  \E pick \in (IF got = {} THEN {{}} ELSE {{a} : a \in got}) :
               gmail' = [gmail EXCEPT
                   !.ops = @ + 1,
                   !.account = IF pick = {} THEN @ ELSE pick,
                   !.last = [NoOp EXCEPT !.op = "load", !.ok = r.ok, !.err = r.err.msg,
                                         !.self = gmail.account, !.made = got,
                                         !.file = store, !.t = now, !.readOk = readOk]]
    /\ UNCHANGED <<now, store, issued>>
    /\ UNCHANGED gmail_frame

InitGmail ==
    /\ now = 0
    /\ ticks = 0
    /\ tm_account = OtherAccount
    /\ tm_pc = "idle"
    /\ tm_op = "none"
    /\ store \in StoredFiles
    /\ issued = 0
    /\ call = NoCall(tm_account, << >>)
    /\ unsaved = NoUnsaved
    /\ auth = AuthIdle
    /\ sync = SyncIdle
    /\ crypto = CryptoIdle
    /\ ondemand = OndemandIdle
    /\ race = RaceIdle
    /\ engine = EngineIdle
    /\ gmail = Gmail_start(store)

NextGmail == GmailNew \/ GmailUpdate \/ GmailSave \/ GmailLoad \/ Tick

SpecGmail == InitGmail /\ [][NextGmail]_vars

\* the positions of the file whose record has the email
Occurrences(file, email) == {i \in DOMAIN file : file[i].email = email}

\* the account that the last operation was called on
LastSelf == CHOOSE a \in gmail.last.self : TRUE

----------------------------------------------------------------------------
\* C22: a save_account that succeeds on a file holding a record of the same
\* email replaces that record where it is, the length of the list and every
\* other record unchanged; on a file without the email it appends one
\* record.  Hence a file that was empty at the start holds every email once,
\* and saving the account once more leaves the file as it is.
C22_UpsertByEmail ==
    /\ (gmail.last.op = "save" /\ gmail.last.ok)
       => LET before == gmail.last.file
              hits == Occurrences(before, LastSelf.email)
          IN  /\ hits # {}
                 => /\ Len(store) = Len(before)
                    /\ \E k \in hits :
                          /\ store[k] = LastSelf
                          /\ \A j \in DOMAIN before : j # k => store[j] = before[j]
              /\ hits = {}
                 => store = Append(before, LastSelf)
              /\ save_account(LastSelf, store, TRUE, TRUE, TRUE) = Ok(store)
    /\ gmail.file0 = << >>
       => \A i, j \in DOMAIN store : store[i].email = store[j].email => i = j

\* the last save has replaced the first of two records by a record of other
\* content
C22_Witness ==
    /\ gmail.last.op = "save"
    /\ gmail.last.ok
    /\ Len(store) = 2
    /\ Len(gmail.last.file) = 2
    /\ store[1] # gmail.last.file[1]
    /\ store[2] = gmail.last.file[2]

----------------------------------------------------------------------------
\* C23: the account that new, update_access_token and the deserialization
\* give, and every record that a save writes, has the prefix on both token
\* fields; when either encryption of the constructor fails there is no
\* account.
C23_BothTokensEncrypted ==
    /\ \A a \in gmail.account \cup gmail.last.made : both_encrypted(a)
    /\ (gmail.last.op = "save" /\ gmail.last.ok)
       => \A i \in DOMAIN store : both_encrypted(store[i])
    /\ gmail.last.op = "new"
       => /\ gmail.last.ok <=> (gmail.last.keys[1] /\ gmail.last.keys[2])
          /\ ~gmail.last.ok => (gmail.last.made = {} /\ gmail.account = gmail.last.self)

\* the constructor has failed at its second encryption, the first done
C23_Witness ==
    /\ gmail.last.op = "new"
    /\ ~gmail.last.ok
    /\ gmail.last.keys = <<TRUE, FALSE>>
    /\ gmail.last.made = {}

----------------------------------------------------------------------------
\* C24: update_access_token changes access_token and expires_at together
\* or not at all: after a success the token decrypts to the new token and
\* expires_at is the time of the call plus the ttl, after a failure the
\* account is as before.  No step on an account that stays the same value
\* (anything but a construction or a load) changes expires_at and leaves
\* access_token.
C24_TokenAndExpiryTogether ==
    /\ [](gmail.last.op = "update"
          => IF gmail.last.ok
             THEN \A a \in gmail.account :
                    /\ decrypt_token(a.access_token, TRUE) = Ok(gmail.last.token)
                    /\ a.expires_at = gmail.last.t + gmail.last.ttl
                    /\ a.access_token # LastSelf.access_token
             ELSE gmail.account = gmail.last.self)
    /\ [][gmail'.last.op \notin {"new", "load"}
          => \A a \in gmail.account : \A b \in gmail'.account :
                b.expires_at # a.expires_at => b.access_token # a.access_token]_vars

\* an update has failed on an account that an earlier update had changed
C24_Witness ==
    /\ gmail.last.op = "update"
    /\ ~gmail.last.ok
    /\ gmail.account # {}
    /\ \E a \in gmail.account : a.access_token.plain = 1

----------------------------------------------------------------------------
\* C25: load_accounts returns no account with a token field that lacks the
\* prefix: on a file with such a record it fails with the parse error, and
\* the file stays as it is.
C25_LoadRejectsPlaintext ==
    gmail.last.op = "load"
    => /\ \A a \in gmail.last.made : both_encrypted(a)
       /\ store = gmail.last.file
       /\ (gmail.last.readOk /\ \E i \in DOMAIN store : ~both_encrypted(store[i]))
          => (~gmail.last.ok /\ gmail.last.err = "parse accounts file"
              /\ gmail.last.made = {})

\* a load has failed on a file whose second record has its refresh token in
\* plaintext
C25_Witness ==
    /\ gmail.last.op = "load"
    /\ ~gmail.last.ok
    /\ gmail.last.readOk
    /\ Len(store) = 2
    /\ both_encrypted(store[1])
    /\ ~is_encrypted(store[2].refresh_token)

----------------------------------------------------------------------------
\* C30: is_token_expiring(threshold_minutes) is true exactly when the token
\* has threshold_minutes or less to live, the limit included: with one hour
\* to live it is false for 10 and true for 120, and for a token that has
\* expired it is true for 0.
C30_IsTokenExpiring ==
    \A a \in gmail.account :
       /\ \A m \in Thresholds :
             is_token_expiring(a, m, now) <=> (a.expires_at - now <= 60 * m)
       /\ a.expires_at = now + 3600
          => /\ ~is_token_expiring(a, 10, now)
             /\ is_token_expiring(a, 60, now)
             /\ is_token_expiring(a, 120, now)
       /\ a.expires_at <= now => is_token_expiring(a, 0, now)
       /\ a.expires_at = now + 1 => ~is_token_expiring(a, 0, now)

\* an account has exactly one hour to live: the limit of threshold 60
C30_Witness ==
    \E a \in gmail.account : a.expires_at = now + 3600 /\ now > 0

----------------------------------------------------------------------------
(* Part 6.  src/config/crypto.rs at the level of the bytes.  A String is    *)
(* the sequence of its characters (Unicode scalar values); a string handed  *)
(* to decrypt_token is the record of its first characters (the prefix, or   *)
(* "" when it does not start with it) and of the text after them, a         *)
(* sequence of characters of the base64 alphabet, each given by its index   *)
(* 0..63, with 64 for the padding '=' and 65 for a character outside the    *)
(* alphabet.  AES-256-GCM is a keyed cipher that adds to each byte a        *)
(* keystream byte depending on key, nonce and position, and appends a tag   *)
(* of 16 bytes depending on the key, on every byte of the nonce and of the  *)
(* ciphertext and on its length.                                            *)

\* characters of a string followed
MaxLen == 2

NONCE_SIZE == 12

TAG_SIZE == 16

Byte == 256

\* 'A', e acute, a CJK ideograph, an emoji: 1, 2, 3 and 4 bytes of UTF-8
Chars == {65, 233, 20013, 128512}

Strings == UNION {[1..n -> Chars] : n \in 0..MaxLen}

\* str::as_bytes: the UTF-8 encoding of one character, and of a string
utf8_char(c) ==
    IF c < 128 THEN <<c>>
    ELSE IF c < 2048 THEN <<192 + (c \div 64), 128 + (c % 64)>>
    ELSE IF c < 65536
         THEN <<224 + (c \div 4096), 128 + ((c \div 64) % 64), 128 + (c % 64)>>
    ELSE <<240 + (c \div 262144), 128 + ((c \div 4096) % 64), 128 + ((c \div 64) % 64),
           128 + (c % 64)>>

RECURSIVE as_bytes_Truncating(_)
as_bytes_Truncating(s) ==
    IF Len(s) = 0 THEN << >> ELSE <<Head(s) % Byte>> \o as_bytes_Truncating(Tail(s))

RECURSIVE as_bytes(_)
as_bytes(s) == IF Len(s) = 0 THEN << >> ELSE utf8_char(Head(s)) \o as_bytes(Tail(s))

\* String::from_utf8: the string of the bytes, or the error for bytes that
\* are not the UTF-8 encoding of a string
RECURSIVE from_utf8(_)
from_utf8(b) ==
    IF Len(b) = 0 THEN Ok(<< >>)
    ELSE LET n == IF b[1] < 128 THEN 1
                  ELSE IF b[1] \in 194..223 THEN 2
                  ELSE IF b[1] \in 224..239 THEN 3
                  ELSE IF b[1] \in 240..244 THEN 4
                  ELSE 0
         IN  IF n = 0 \/ Len(b) < n \/ \E k \in 2..n : b[k] \notin 128..191
             THEN Err("not UTF-8")
             ELSE LET c == IF n = 1 THEN b[1]
                           ELSE IF n = 2 THEN (b[1] - 192) * 64 + (b[2] - 128)
                           ELSE IF n = 3
                                THEN (b[1] - 224) * 4096 + (b[2] - 128) * 64 + (b[3] - 128)
                           ELSE (b[1] - 240) * 262144 + (b[2] - 128) * 4096
                                + (b[3] - 128) * 64 + (b[4] - 128)
                      wellformed == /\ n = 3 => (c >= 2048 /\ c \notin 55296..57343)
                                    /\ n = 4 => c \in 65536..1114111
                      rest == from_utf8(SubSeq(b, n + 1, Len(b)))
                  IN  IF ~wellformed THEN Err("not UTF-8")
                      ELSE IF ~rest.ok THEN rest
                      ELSE Ok(<<c>> \o Val(rest))

\* the padding character and a character outside the base64 alphabet
PAD == 64
NotInAlphabet == 65

\* BASE64.encode (the STANDARD engine: with padding)
RECURSIVE BASE64_encode(_)
BASE64_encode(b) ==
    IF Len(b) = 0 THEN << >>
    ELSE IF Len(b) = 1
         THEN <<b[1] \div 4, (b[1] % 4) * 16, PAD, PAD>>
    ELSE IF Len(b) = 2
         THEN <<b[1] \div 4, (b[1] % 4) * 16 + (b[2] \div 16), (b[2] % 16) * 4, PAD>>
    ELSE <<b[1] \div 4, (b[1] % 4) * 16 + (b[2] \div 16), (b[2] % 16) * 4 + (b[3] \div 64),
           b[3] % 64>>
         \o BASE64_encode(SubSeq(b, 4, Len(b)))

\* BASE64.decode (the STANDARD engine: the length is a multiple of 4, the
\* padding is there and only at the end, and the bits that the last symbol
\* has beyond the last byte are zero)
RECURSIVE BASE64_decode(_)
BASE64_decode(text) ==
    IF Len(text) = 0 THEN Ok(<< >>)
    ELSE IF Len(text) < 4 \/ \E i \in 1..4 : text[i] > PAD THEN Err("base64 decode")
    ELSE LET a == text[1]
             b == text[2]
             c == text[3]
             d == text[4]
             last == Len(text) = 4
         IN  IF a = PAD \/ b = PAD THEN Err("base64 decode")
             ELSE IF c = PAD
                  THEN IF last /\ d = PAD /\ b % 16 = 0
                       THEN Ok(<<a * 4 + (b \div 16)>>)
                       ELSE Err("base64 decode")
             ELSE IF d = PAD
                  THEN IF last /\ c % 4 = 0
                       THEN Ok(<<a * 4 + (b \div 16), (b % 16) * 16 + (c \div 4)>>)
                       ELSE Err("base64 decode")
             ELSE LET rest == BASE64_decode(SubSeq(text, 5, Len(text)))
                  IN  IF ~rest.ok THEN rest
                      ELSE Ok(<<a * 4 + (b \div 16), (b % 16) * 16 + (c \div 4),
                                (c % 4) * 64 + d>> \o Val(rest))

\* what the key gives to the keystream and to the tag
key_seed(key) == IF key = MachineKey THEN 17 ELSE 42

keystream(key, nonce, i) == (key_seed(key) + nonce[((i - 1) % NONCE_SIZE) + 1] + 7 * i) % Byte

RECURSIVE weighted_sum(_, _, _)
weighted_sum(x, j, i) ==
    IF i > Len(x) THEN 0 ELSE ((i + j) * x[i] + weighted_sum(x, j, i + 1)) % Byte

\* the tag of the ciphertext ct under key and nonce
tag_of(key, nonce, ct) ==
    [j \in 1..TAG_SIZE |->
        (key_seed(key) + 31 * Len(ct) + j + weighted_sum(nonce \o ct, j, 1)) % Byte]

\* Aead::encrypt: the ciphertext followed by its tag
Aead_encrypt(key, nonce, plaintext) ==
    LET ct == [i \in 1..Len(plaintext) |-> (plaintext[i] + keystream(key, nonce, i)) % Byte]
    IN  ct \o tag_of(key, nonce, ct)

Aead_decrypt_NoTag(key, nonce, data) ==
    IF Len(data) < TAG_SIZE THEN Err("AES-GCM open")
    ELSE LET ct == SubSeq(data, 1, Len(data) - TAG_SIZE)
         IN  Ok([i \in 1..Len(ct) |-> (ct[i] + Byte - keystream(key, nonce, i)) % Byte])

\* Aead::decrypt: the plaintext when the tag is the one of the ciphertext
Aead_decrypt(key, nonce, data) ==
    IF Len(data) < TAG_SIZE THEN Err("AES-GCM open")
    ELSE LET ct == SubSeq(data, 1, Len(data) - TAG_SIZE)
             tg == SubSeq(data, Len(data) - TAG_SIZE + 1, Len(data))
         IN  IF tg # tag_of(key, nonce, ct) THEN Err("AES-GCM open")
             ELSE Ok([i \in 1..Len(ct) |-> (ct[i] + Byte - keystream(key, nonce, i)) % Byte])

crypto_encrypt_token_FixedNonce(plain, keyOk, nonce) ==
    LET fixed == [i \in 1..NONCE_SIZE |-> 0]
    IN  IF ~keyOk THEN Err("key derivation")
        ELSE Ok([prefix |-> ENCRYPTED_PREFIX,
                 text |-> BASE64_encode(fixed \o Aead_encrypt(MachineKey, fixed, as_bytes(plain)))])

\* crypto::encrypt_token with the nonce that generate_nonce draws
crypto_encrypt_token(plain, keyOk, nonce) ==
    IF ~keyOk THEN Err("key derivation")
    ELSE Ok([prefix |-> ENCRYPTED_PREFIX,
             text |-> BASE64_encode(nonce \o Aead_encrypt(MachineKey, nonce, as_bytes(plain)))])

crypto_is_encrypted(s) == s.prefix = ENCRYPTED_PREFIX

crypto_decrypt_token_KeyFirst(encrypted, keyOk) ==
    IF ~keyOk THEN Err("key derivation")
    ELSE IF ~crypto_is_encrypted(encrypted) THEN Err("missing prefix")
    ELSE LET combined == BASE64_decode(encrypted.text)
         IN  IF ~combined.ok THEN Err("base64 decode")
             ELSE IF Len(Val(combined)) < NONCE_SIZE THEN Err("payload too short")
             ELSE LET nonce == SubSeq(Val(combined), 1, NONCE_SIZE)
                      ciphertext == SubSeq(Val(combined), NONCE_SIZE + 1, Len(Val(combined)))
                      plaintext == Aead_decrypt(MachineKey, nonce, ciphertext)
                  IN  IF ~plaintext.ok THEN Err("AES-GCM open")
                      ELSE from_utf8(Val(plaintext))

\* crypto::decrypt_token
crypto_decrypt_token(encrypted, keyOk) ==
    IF ~crypto_is_encrypted(encrypted) THEN Err("missing prefix")
    ELSE LET combined == BASE64_decode(encrypted.text)
         IN  IF ~combined.ok THEN Err("base64 decode")
             ELSE IF Len(Val(combined)) < NONCE_SIZE THEN Err("payload too short")
             ELSE LET nonce == SubSeq(Val(combined), 1, NONCE_SIZE)
                      ciphertext == SubSeq(Val(combined), NONCE_SIZE + 1, Len(Val(combined)))
                  IN  IF ~keyOk THEN Err("key derivation")
                      ELSE LET plaintext == Aead_decrypt(MachineKey, nonce, ciphertext)
                           IN  IF ~plaintext.ok THEN Err("AES-GCM open")
                               ELSE from_utf8(Val(plaintext))

\* encrypt_token calls followed, and decrypt_token calls followed
MaxEncrypts == 2

MaxDecrypts == 1

\* nonces that generate_nonce may draw
Nonces == {[i \in 1..NONCE_SIZE |-> 7], [i \in 1..NONCE_SIZE |-> (37 * i) % Byte]}

\* what is added to a byte of a payload to change it
Deltas == {1, 128}

\* a string that starts with the prefix, and one that does not
Prefixed(text) == [prefix |-> ENCRYPTED_PREFIX, text |-> text]

Unprefixed(text) == [prefix |-> "", text |-> text]

\* strings that encrypt_token does not give, each under the name of the
\* first thing that is wrong with it
MalformedInputs ==
    { [label |-> "no prefix", s |-> Unprefixed(<< >>)],
      [label |-> "no prefix",
       s |-> Unprefixed(BASE64_encode([i \in 1..(NONCE_SIZE + TAG_SIZE) |-> i]))],
      [label |-> "no prefix", s |-> Unprefixed(<<19, NotInAlphabet>>)],
      [label |-> "not base64", s |-> Prefixed(<<19, 22, NotInAlphabet, 46>>)],
      [label |-> "not base64", s |-> Prefixed(<<19, 22, 5>>)],
      [label |-> "not base64", s |-> Prefixed(<<19, 22, PAD, 46>>)],
      [label |-> "not base64", s |-> Prefixed(<<19, 17, PAD, PAD>>)],
      [label |-> "too short", s |-> Prefixed(<< >>)],
      [label |-> "too short", s |-> Prefixed(BASE64_encode(<<77>>))],
      [label |-> "too short",
       s |-> Prefixed(BASE64_encode([i \in 1..(NONCE_SIZE - 1) |-> i]))],
      [label |-> "no tag", s |-> Prefixed(BASE64_encode([i \in 1..NONCE_SIZE |-> i]))],
      [label |-> "no tag",
       s |-> Prefixed(BASE64_encode([i \in 1..(NONCE_SIZE + TAG_SIZE - 1) |-> i]))] }

NoCrypto ==
    [kind |-> "none", label |-> "", input |-> Unprefixed(<< >>), keyOk |-> TRUE,
     result |-> OkUnit]

Crypto_start(plain) ==
    [pc |-> "crypto", plain |-> plain, out |-> << >>, decrypts |-> 0, last |-> NoCrypto]

crypto_frame ==
    <<now, ticks, tm_account, tm_pc, tm_op, store, issued, call, unsaved, auth, sync,
      ondemand, race, gmail, engine>>

\* encrypt_token(plain): the string it returns is kept with the nonce drawn
CryptoEncrypt ==
    /\ Len(crypto.out) < MaxEncrypts
    /\ \E nonce \in Nonces, keyOk \in BOOLEAN :
         LET r == crypto_encrypt_token(crypto.plain, keyOk, nonce)
         IN  crypto' = [crypto EXCEPT
                 !.out = IF r.ok THEN Append(@, [nonce |-> nonce, s |-> Val(r)]) ELSE @,
                 !.last = [NoCrypto EXCEPT !.kind = "encrypt", !.keyOk = keyOk,
                                           !.result = IF r.ok THEN OkUnit ELSE r]]
    /\ UNCHANGED crypto_frame

\* decrypt_token of a string that encrypt_token has returned
CryptoDecryptOwn ==
    /\ crypto.decrypts < MaxDecrypts
    /\ \E k \in DOMAIN crypto.out, keyOk \in BOOLEAN :
         crypto' = [crypto EXCEPT
             !.decrypts = @ + 1,
             !.last = [NoCrypto EXCEPT !.kind = "own", !.input = crypto.out[k].s,
                                       !.keyOk = keyOk,
                                       !.result = crypto_decrypt_token(crypto.out[k].s, keyOk)]]
    /\ UNCHANGED crypto_frame

\* the payload of the encrypted string s with delta added to its byte p
tampered(s, p, delta) ==
    LET payload == Val(BASE64_decode(s.text))
    IN  Prefixed(BASE64_encode([payload EXCEPT ![p] = (@ + delta) % Byte]))

\* the part of a payload of n bytes that byte p is in
part_of(p, n) ==
    IF p <= NONCE_SIZE THEN "nonce" ELSE IF p > n - TAG_SIZE THEN "tag" ELSE "ciphertext"

\* decrypt_token of a string that encrypt_token has returned, one byte of
\* its payload changed
CryptoDecryptTampered ==
    /\ crypto.decrypts < MaxDecrypts
    /\ \E k \in DOMAIN crypto.out, keyOk \in BOOLEAN, delta \in Deltas :
         LET n == Len(Val(BASE64_decode(crypto.out[k].s.text)))
         IN  \E p \in 1..n :
               LET input == tampered(crypto.out[k].s, p, delta)
               IN  crypto' = [crypto EXCEPT
                       !.decrypts = @ + 1,
                       !.last = [NoCrypto EXCEPT !.kind = "tampered", !.label = part_of(p, n),
                                                 !.input = input, !.keyOk = keyOk,
                                                 !.result = crypto_decrypt_token(input, keyOk)]]
    /\ UNCHANGED crypto_frame

\* decrypt_token of a string that is not of the format
CryptoDecryptMalformed ==
    /\ crypto.decrypts < MaxDecrypts
    /\ \E m \in MalformedInputs, keyOk \in BOOLEAN :
         crypto' = [crypto EXCEPT
             !.decrypts = @ + 1,
             !.last = [NoCrypto EXCEPT !.kind = "malformed", !.label = m.label,
                                       !.input = m.s, !.keyOk = keyOk,
                                       !.result = crypto_decrypt_token(m.s, keyOk)]]
    /\ UNCHANGED crypto_frame

InitCrypto ==
    /\ now = 0
    /\ ticks = 0
    /\ tm_account = OtherAccount
    /\ tm_pc = "idle"
    /\ tm_op = "none"
    /\ store = << >>
    /\ issued = 0
    /\ call = NoCall(tm_account, store)
    /\ unsaved = NoUnsaved
    /\ auth = AuthIdle
    /\ sync = SyncIdle
    /\ gmail = GmailIdle
    /\ engine = EngineIdle
    /\ ondemand = OndemandIdle
    /\ race = RaceIdle
    /\ crypto \in {Crypto_start(plain) : plain \in Strings}

NextCrypto ==
    CryptoEncrypt \/ CryptoDecryptOwn \/ CryptoDecryptTampered \/ CryptoDecryptMalformed

SpecCrypto == InitCrypto /\ [][NextCrypto]_vars

----------------------------------------------------------------------------
\* C26: every string that encrypt_token returns has the prefix and, on the
\* same machine, decrypt_token of it succeeds and gives the string that was
\* encrypted, the empty string and strings of characters of several bytes
\* included.
C26_RoundTrip ==
    /\ \A k \in DOMAIN crypto.out :
          /\ crypto_is_encrypted(crypto.out[k].s)
          /\ crypto_decrypt_token(crypto.out[k].s, TRUE) = Ok(crypto.plain)
    /\ (crypto.last.kind = "own" /\ crypto.last.keyOk)
       => crypto.last.result = Ok(crypto.plain)

\* a string of a character of two bytes and one of four bytes has been
\* encrypted and decrypted
C26_Witness ==
    /\ crypto.plain = <<233, 128512>>
    /\ crypto.last.kind = "own"
    /\ crypto.last.result.ok

----------------------------------------------------------------------------
\* C27: decrypt_token checks the format first and tells which check failed:
\* the missing prefix, the text that is not base64, the payload of less
\* than 12 bytes, each with an error of its own and different from the
\* error of the cipher, and each whether or not the key can be derived.
C27_FormatCheckedFirst ==
    crypto.last.kind = "malformed"
    => /\ ~crypto.last.result.ok
       /\ crypto.last.result.val = {}
       /\ crypto.last.label = "no prefix"
          => crypto.last.result.err.msg = "missing prefix"
       /\ crypto.last.label = "not base64"
          => crypto.last.result.err.msg = "base64 decode"
       /\ crypto.last.label = "too short"
          => crypto.last.result.err.msg = "payload too short"
       /\ crypto.last.label = "no tag"
          => crypto.last.result.err.msg
               = IF crypto.last.keyOk THEN "AES-GCM open" ELSE "key derivation"

\* a payload of 11 bytes has been refused for its length though the key
\* could not have been derived
C27_Witness ==
    /\ crypto.last.kind = "malformed"
    /\ crypto.last.label = "too short"
    /\ Len(crypto.last.input.text) = 16
    /\ ~crypto.last.keyOk
    /\ crypto.last.result.err.msg = "payload too short"

----------------------------------------------------------------------------
\* C28: decrypt_token of an encrypted string with one byte of its payload
\* changed (in the nonce, the ciphertext or the tag) fails and gives no
\* output; decrypt_token never gives a string other than the one encrypted.
C28_TamperDetected ==
    /\ crypto.last.kind = "tampered"
       => (~crypto.last.result.ok /\ crypto.last.result.val = {})
    /\ (crypto.last.kind \in {"own", "tampered"} /\ crypto.last.result.ok)
       => crypto.last.result.val = {crypto.plain}

\* a changed byte of the ciphertext has been refused by the cipher
C28_Witness ==
    /\ crypto.last.kind = "tampered"
    /\ crypto.last.label = "ciphertext"
    /\ crypto.last.keyOk
    /\ crypto.last.result.err.msg = "AES-GCM open"

----------------------------------------------------------------------------
----------------------------------------------------------------------------
\* C34: in the payload of a successful sync_account_info network_issue is
\* true exactly when the probe of that sync made more than one request, that
\* is when a request failed (error, timeout or another status) before the
\* one that succeeded; it is false when the first request succeeded.
C34_NetworkIssueIffProbeRetried ==
    \A i \in DOMAIN sync.cb :
        sync.cb[i].ok => (sync.cb[i].network_issue <=> sync.cb[i].probe.attempt > 1)

\* an account was synced after two failed probe requests and its payload
\* carries the flag, next to one synced at the first request
C34_Witness ==
    /\ Len(sync.cb) = 2
    /\ sync.cb[1].ok /\ sync.cb[1].network_issue /\ sync.cb[1].probe.attempt = 3
    /\ sync.cb[2].ok /\ ~sync.cb[2].network_issue /\ sync.cb[2].probe.attempt = 1

----------------------------------------------------------------------------
\* C38: once stop or request_stop has cleared the flag, the periodic task
\* starts no cycle: a tick that completes while the flag is clear is followed
\* by no load of the accounts, no probe request and no callback.
C38_NoCycleAfterStop ==
    [][~sync.running
        => /\ sync'.cycle = sync.cycle
           /\ sync.pc = "tick" => sync'.pc \notin {"probe", "refresh", "unread"}]_vars

----------------------------------------------------------------------------
\* C37: a write of the accounts file never replaces the access token of a
\* record by one issued earlier (access tokens are numbered in the order of
\* issue): the save of the updated account by the SyncEngine keeps what the
\* TokenManager has persisted since.
C37_StoredTokenNeverOlder ==
    [][\A i \in DOMAIN store :
          \E j \in DOMAIN store' :
             /\ store'[j].email = store[i].email
             /\ store'[j].access_token.plain >= store[i].access_token.plain]_vars

----------------------------------------------------------------------------
\* C40: a stored record with a token field without the prefix affects that
\* record only: load_accounts of a readable file gives the other records of
\* the file, and save_account of a well-formed account of another email
\* succeeds when the key derives and the file can be read and written.
C40_MalformedRecordIsolated ==
    /\ (gmail.last.op = "load" /\ gmail.last.readOk)
       => /\ gmail.last.ok
          /\ gmail.last.made = {store[i] : i \in {j \in DOMAIN store : both_encrypted(store[j])}}
    /\ \A a \in (IF gmail.pc = "gmail" THEN gmail.account ELSE {}) :
          (/\ both_encrypted(a)
           /\ \A i \in DOMAIN store : ~both_encrypted(store[i]) => store[i].email # a.email)
          => save_account(a, store, TRUE, TRUE, TRUE).ok

----------------------------------------------------------------------------
\* C36: a browser that cannot be opened does not end the authorization flow:
\* authenticate never returns the browser's error, and once the listener is
\* spawned it waits for the callback although no browser was opened.
C36_BrowserFailureNotFatal ==
    (auth.pc # "start" /\ auth.srv # "none" /\ ~auth.browser)
    => /\ auth.pc \notin AuthTerminal
       /\ auth.result.err.msg # "cannot open browser"

----------------------------------------------------------------------------
\* C39: when authenticate has returned, however it ended, the listener
\* thread that it spawned has returned and holds its port no more, so that
\* the listener of a later call can bind the same port.
C39_ListenerStoppedAtReturn ==
    (auth.pc \in AuthTerminal /\ auth.srv # "none")
    => /\ auth.srv \in {"ok", "err"}
       /\ ~auth.bound
       /\ server_bind(auth.port, auth.occupied).ok
          => server_bind(auth.port,
                         auth.occupied \cup (IF auth.bound THEN {auth.port} ELSE {})).ok

----------------------------------------------------------------------------
(* Part 7.  src/sync/mod.rs: sync_now next to one cycle of the periodic    *)
(* task.  Both are given the same account file and the same returns of     *)
(* sync_account_info, the function both call for every account; each has   *)
(* its own copy of the file, list of callbacks and list of calls.          *)

\* what one call of sync_account_info for acct can leave behind: its
\* return value and whether its TokenManager wrote a refreshed account to
\* the file while it ran (api.rs lines 300-372)
SyncReturns(acct) ==
    LET fresh == Val(update_access_token(acct, 1, 3600, 0, TRUE))
        fine(had) == [info_failed(acct, 0, had, <<"500">>) EXCEPT !.error_message = << >>]
    IN  {[res |-> Ok([info |-> fine(had), updated |-> {}]), wrote |-> {}] :
            had \in BOOLEAN}
        \cup {[res |-> Ok([info |-> fine(FALSE), updated |-> {fresh}]), wrote |-> {fresh}],
              [res |-> Ok([info |-> info_reauthorize(acct, 0, FALSE), updated |-> {acct}]),
               wrote |-> {fresh}],
              [res |-> AErr(MsgNetworkCheckFailed, "network unavailable"), wrote |-> {}],
              [res |-> AErr(MsgAccessToken, "invalid_grant"), wrote |-> {}],
              [res |-> AErr(MsgUnreadCount, "500"), wrote |-> {fresh}]}

\* the file once the TokenManager of the call has written (or not)
token_write(file, wrote, env) ==
    IF wrote = {} THEN file
    ELSE LET sv == save_account(unwrap_or(wrote, OtherAccount), file,
                                env.keyOk, env.readOk, env.writeOk)
         IN  IF sv.ok THEN Val(sv) ELSE file

\* sync_now's frame: pc is "idle" (not called) | "account" (awaiting
\* sync_account_info for accounts[idx]) | "returned"; cb the callbacks it
\* has made, called the accounts it has passed to sync_account_info, saves
\* its save_account calls, result its return value
SyncNow_frame ==
    [pc |-> "idle", accounts |-> << >>, idx |-> 0, cb |-> << >>, called |-> << >>,
     saves |-> 0, result |-> OkUnit]

sync_now_IgnoreEmpty(n, file, env) ==
    LET loaded == load_accounts(file, env.readOk)
    IN  IF ~loaded.ok THEN [n EXCEPT !.pc = "returned", !.result = loaded]
        ELSE [n EXCEPT !.accounts = Val(loaded) \o <<OtherAccount>>, !.idx = 1,
                       !.pc = "account",
                       !.called = Append(@, (Val(loaded) \o <<OtherAccount>>)[1])]

\* sync/mod.rs lines 155-172: sync_now up to its first sync_account_info
sync_now(n, file, env) ==
    LET loaded == load_accounts(file, env.readOk)
    IN  IF ~loaded.ok THEN [n EXCEPT !.pc = "returned", !.result = loaded]
        ELSE IF Val(loaded) = << >> THEN [n EXCEPT !.pc = "returned", !.result = OkUnit]
        ELSE [n EXCEPT !.accounts = Val(loaded), !.idx = 1, !.pc = "account",
                       !.called = Append(@, Val(loaded)[1])]

sync_now_after_NoBreak(n, file, res, env) ==
    LET acct == n.accounts[n.idx]
        saving == res.ok /\ Val(res).updated # {}
        sv == IF saving
              THEN save_account(unwrap_or(Val(res).updated, acct), file,
                                env.keyOk, env.readOk, env.writeOk)
              ELSE Ok(file)
        entry == [email |-> acct.email, ok |-> res.ok,
                  err_str |-> IF res.ok THEN << >> ELSE to_string(res),
                  info_email |-> IF res.ok THEN Val(res).info.email ELSE "",
                  error_message |-> IF res.ok THEN Val(res).info.error_message ELSE << >>,
                  network_issue |-> res.ok /\ Val(res).info.network_issue]
        n1 == [n EXCEPT !.cb = Append(@, entry), !.saves = @ + (IF saving THEN 1 ELSE 0)]
    IN  [file |-> IF sv.ok THEN Val(sv) ELSE file,
         now |-> IF n.idx = Len(n.accounts)
                 THEN [n1 EXCEPT !.pc = "returned", !.result = OkUnit]
                 ELSE [n1 EXCEPT !.idx = n.idx + 1,
                                 !.called = Append(@, n.accounts[n.idx + 1])]]

\* sync/mod.rs lines 174-210: sync_account_info returned res to sync_now for
\* accounts[idx]; it saves the updated account, calls back, and goes on to
\* the next account or, after the last one or on a network error, returns
sync_now_after(n, file, res, env) ==
    LET acct == n.accounts[n.idx]
        saving == res.ok /\ Val(res).updated # {}
        sv == IF saving
              THEN save_account(unwrap_or(Val(res).updated, acct), file,
                                env.keyOk, env.readOk, env.writeOk)
              ELSE Ok(file)
        entry == [email |-> acct.email, ok |-> res.ok,
                  err_str |-> IF res.ok THEN << >> ELSE to_string(res),
                  info_email |-> IF res.ok THEN Val(res).info.email ELSE "",
                  error_message |-> IF res.ok THEN Val(res).info.error_message ELSE << >>,
                  network_issue |-> res.ok /\ Val(res).info.network_issue]
        brk == /\ ~res.ok
               /\ \/ contains(to_string(res), "network check failed")
                  \/ contains(to_string(res), "network unavailable")
        n1 == [n EXCEPT !.cb = Append(@, entry), !.saves = @ + (IF saving THEN 1 ELSE 0)]
    IN  [file |-> IF sv.ok THEN Val(sv) ELSE file,
         now |-> IF brk \/ n.idx = Len(n.accounts)
                 THEN [n1 EXCEPT !.pc = "returned", !.result = OkUnit]
                 ELSE [n1 EXCEPT !.idx = n.idx + 1,
                                 !.called = Append(@, n.accounts[n.idx + 1])]]

\* sync/mod.rs lines 76-97: the tick completes and the periodic task loads
\* the accounts; on an error and on an empty list it is back at the loop top
periodic_cycle(s, file) ==
    LET loaded == load_accounts(file, s.env.readOk)
        s0 == [s EXCEPT !.cycle = @ + 1, !.ticked = @ + 1, !.cb = << >>,
                        !.cyc = [NoCyc EXCEPT !.load_ok = loaded.ok],
                        !.accounts = IF loaded.ok THEN Val(loaded) ELSE << >>,
                        !.idx = 0]
    IN  IF ~loaded.ok \/ s0.accounts = << >>
        THEN [s0 EXCEPT !.pc = "top"]
        ELSE begin_account(s0, 1)

\* what the callback of the periodic task is given, without the history of
\* the call
payloads(cb) ==
    [i \in DOMAIN cb |->
        [email |-> cb[i].email, ok |-> cb[i].ok, err_str |-> cb[i].err_str,
         info_email |-> cb[i].info_email, error_message |-> cb[i].error_message,
         network_issue |-> cb[i].network_issue]]

\* where the two are: "idle" | "account" (both await sync_account_info for
\* the same index) | "returned" (sync_now has returned and the task is
\* back at its loop top) | "apart" (one goes on and the other does not)
side_by_side(n, p) ==
    IF n.pc = "account" /\ p.pc = "probe" /\ n.idx = p.idx THEN "account"
    ELSE IF n.pc = "returned" /\ p.pc = "top" THEN "returned"
    ELSE "apart"

\* running: the flag of the engine; task, task_file, task_called: the
\* periodic task, its copy of the file and the accounts it has passed to
\* sync_account_info; now, now_file: sync_now's frame and its copy
Ondemand_start(env, running) ==
    [pc |-> "idle", running |-> running, env |-> env,
     task |-> [SyncEngine_new(env, [outages |-> 0, faults |-> 0])
                  EXCEPT !.running = running, !.pc = "tick", !.starts = 1],
     task_called |-> << >>, task_file |-> << >>,
     now |-> SyncNow_frame, now_file |-> << >>]

ondemand_frame ==
    <<now, ticks, tm_account, tm_pc, tm_op, store, issued, call, unsaved, auth, sync,
      crypto, race, gmail, engine>>

\* sync_now is called, and the timer of the task fires
OndemandCall ==
    /\ ondemand.pc = "idle"
    /\ LET n == sync_now(ondemand.now, store, ondemand.env)
           p == periodic_cycle(ondemand.task, store)
       IN  ondemand' = [ondemand EXCEPT
               !.now = n, !.task = p, !.now_file = store, !.task_file = store,
               !.task_called = IF p.pc = "probe" THEN <<p.tm>> ELSE << >>,
               !.pc = side_by_side(n, p)]
    /\ UNCHANGED ondemand_frame

\* sync_account_info returns to both
OndemandAccountReturns ==
    /\ ondemand.pc = "account"
    /\ \E r \in SyncReturns(ondemand.now.accounts[ondemand.now.idx]) :
         LET n == sync_now_after(ondemand.now,
                                 token_write(ondemand.now_file, r.wrote, ondemand.env),
                                 r.res, ondemand.env)
             p == after_account(ondemand.task,
                                token_write(ondemand.task_file, r.wrote, ondemand.env),
                                r.res)
         IN  ondemand' = [ondemand EXCEPT
                 !.now = n.now, !.now_file = n.file,
                 !.task = p.sync, !.task_file = p.file,
                 !.task_called = IF p.sync.pc = "probe" THEN Append(@, p.sync.tm) ELSE @,
                 !.pc = side_by_side(n.now, p.sync)]
    /\ UNCHANGED ondemand_frame

\* stop or request_stop clears the flag while the two are at work
OndemandStop ==
    /\ ondemand.pc \in {"idle", "account"}
    /\ ondemand.running
    /\ ondemand' = [ondemand EXCEPT !.running = FALSE, !.task.running = FALSE]
    /\ UNCHANGED ondemand_frame

InitOndemand ==
    /\ now = 0
    /\ ticks = 0
    /\ tm_account = OtherAccount
    /\ tm_pc = "idle"
    /\ tm_op = "none"
    /\ store \in SyncInitialStores
    /\ issued = 0
    /\ call = NoCall(tm_account, store)
    /\ unsaved = NoUnsaved
    /\ auth = AuthIdle
    /\ sync = SyncIdle
    /\ crypto = CryptoIdle
    /\ race = RaceIdle
    /\ gmail = GmailIdle
    /\ engine = EngineIdle
    /\ ondemand \in {Ondemand_start(env, running) : env \in SyncEnvs, running \in BOOLEAN}

NextOndemand ==
    \/ OndemandCall
    \/ OndemandAccountReturns
    \/ OndemandStop

SpecOndemand == InitOndemand /\ [][NextOndemand]_vars

\* C31: with no stored accounts a cycle, of the periodic task or of
\* sync_now, calls sync_account_info for no account (so it sends no probe,
\* no token request and no API request), writes nothing to the file and
\* makes no callback.
C31_EmptyStoreNoWork ==
    (store = << >> /\ ondemand.pc # "idle")
        => /\ ondemand.pc = "returned"
           /\ ondemand.now.called = << >> /\ ondemand.task_called = << >>
           /\ ondemand.now.cb = << >> /\ ondemand.task.cb = << >>
           /\ ondemand.now.saves = 0 /\ ondemand.task.cyc.saves = 0
           /\ ondemand.now_file = << >> /\ ondemand.task_file = << >>
           /\ ondemand.env.readOk => ondemand.now.result = OkUnit

C31_Witness ==
    /\ store = << >>
    /\ ondemand.pc = "returned"
    /\ ondemand.env.readOk
    /\ ondemand.now.result = OkUnit
    /\ ondemand.task.cycle = 1

\* C35: sync_now and one cycle of the periodic task, given the same file
\* and the same returns of sync_account_info, pass the same accounts to it
\* in the same order, make the same callbacks and the same writes and stop
\* after the same account; the value of the running flag makes no
\* difference to sync_now.
C35_SameAsPeriodicCycle ==
    /\ ondemand.pc # "apart"
    /\ ondemand.pc \in {"account", "returned"}
        => /\ ondemand.now.called = ondemand.task_called
           /\ ondemand.now.cb = payloads(ondemand.task.cb)
           /\ ondemand.now.saves = ondemand.task.cyc.saves
           /\ ondemand.now_file = ondemand.task_file

C35_Witness ==
    /\ ondemand.pc = "returned"
    /\ ~ondemand.running
    /\ Len(store) = 2
    /\ Len(ondemand.now.cb) = 1
    /\ ~ondemand.now.cb[1].ok
    /\ contains(ondemand.now.cb[1].err_str, "network check failed")
    /\ Len(ondemand.now.called) = 1

----------------------------------------------------------------------------
(* Part 8.  Concurrent writers of the account file.  The periodic task and *)
(* sync_now run on the multi-thread runtime (main.rs line 22), the         *)
(* authorization flow on a thread of its own (main.rs lines 316-319).      *)
(* storage::save_account takes no lock: it reads the whole file            *)
(* (load_accounts), changes the list in memory and writes the whole file   *)
(* (save_accounts).  The read and the write are the steps here; each is    *)
(* one whole-file operation.  A sync path is followed through the first    *)
(* stored account: an account whose token is not expiring makes it write   *)
(* nothing.                                                                *)

SyncPaths == {"task", "now"}

\* expires_in of a refresh response
RaceTtls == {3599, 3600}

\* pc: "idle" | "exchange" (awaiting the token endpoint) | "tm_read",
\* "tm_write" (save_account of the TokenManager, token.rs line 131) |
\* "engine_read", "engine_write" (save_account of the updated account,
\* sync/mod.rs lines 109-113 and 183-187) | "done"
\* tm: TokenManager.account; updated: the account sync_account_info
\* returned; snap: the list save_account has loaded
NoPath == [pc |-> "idle", tm |-> OtherAccount, updated |-> OtherAccount, snap |-> << >>]

\* the account a second authorization creates for email
AuthorizedAccount(email) ==
    Val(GmailAccount_new(email, "n", 0, "refresh-n", 3600, 0, TRUE, TRUE))

\* path: the two sync paths; authz: the end of authenticate (oauth.rs lines
\* 227-236), pc "off" (no flow) | "read" | "write" | "done"; first: the file
\* at the start; made: the accounts the refreshes produced; persisted: the
\* emails a completed authorization has saved
Race_start(file, email, with_auth) ==
    [path |-> [q \in SyncPaths |-> NoPath],
     authz |-> [pc |-> IF with_auth THEN "read" ELSE "off",
                account |-> AuthorizedAccount(email), snap |-> << >>],
     first |-> file, made |-> {}, persisted |-> {}]

race_frame ==
    <<now, ticks, tm_account, tm_pc, tm_op, call, unsaved, auth, sync,
      crypto, ondemand, gmail, engine>>

\* storage.rs line 155: save_account loads the list
save_account_read(file) == load_accounts(file, TRUE)

save_account_write_Push(acct, snap) ==
    save_accounts(Append(snap, acct), snap, TRUE, TRUE)

\* storage.rs lines 157-168: save_account replaces or pushes in the list it
\* loaded and writes the list
save_account_write(acct, snap) == save_account(acct, snap, TRUE, TRUE, TRUE)

\* sync/mod.rs lines 80-97 and 161-172, api.rs lines 315-325: the path
\* loads the accounts and asks for the token of the first; a token that is
\* not expiring is used as it is
RaceCycle(q) ==
    /\ race.path[q].pc = "idle"
    /\ LET loaded == load_accounts(store, TRUE)
           go == /\ loaded.ok /\ Val(loaded) # << >>
                 /\ is_token_expiring(Val(loaded)[1], REFRESH_THRESHOLD_MINUTES, now)
       IN  race' = [race EXCEPT
               !.path[q].pc = IF go THEN "exchange" ELSE "done",
               !.path[q].tm = IF go THEN Val(loaded)[1] ELSE @]
    /\ UNCHANGED <<store, issued>>
    /\ UNCHANGED race_frame

\* token.rs lines 100-128: the token endpoint answers; on a success the
\* TokenManager updates its account
RaceExchange(q) ==
    /\ race.path[q].pc = "exchange"
    /\ \E ok \in BOOLEAN, ttl \in RaceTtls :
         LET u == update_access_token(race.path[q].tm, issued + 1, ttl, now, TRUE)
         IN  IF ok
             THEN /\ issued' = issued + 1
                  /\ race' = [race EXCEPT !.path[q].tm = Val(u),
                                          !.path[q].pc = "tm_read",
                                          !.made = @ \cup {Val(u)}]
             ELSE /\ issued' = issued
                  /\ race' = [race EXCEPT !.path[q].pc = "done"]
    /\ UNCHANGED store
    /\ UNCHANGED race_frame

\* token.rs line 131, storage.rs line 155
RaceTokenRead(q) ==
    /\ race.path[q].pc = "tm_read"
    /\ race' = [race EXCEPT !.path[q].snap = Val(save_account_read(store)),
                            !.path[q].pc = "tm_write"]
    /\ UNCHANGED <<store, issued>>
    /\ UNCHANGED race_frame

\* storage.rs lines 157-168; api.rs lines 326-328: sync_account_info keeps
\* the account of the TokenManager as the updated account
RaceTokenWrite(q) ==
    /\ race.path[q].pc = "tm_write"
    /\ store' = Val(save_account_write(race.path[q].tm, race.path[q].snap))
    /\ race' = [race EXCEPT !.path[q].updated = race.path[q].tm,
                            !.path[q].pc = "engine_read"]
    /\ UNCHANGED issued
    /\ UNCHANGED race_frame

\* sync/mod.rs lines 109-113 and 183-187, storage.rs line 155
RaceEngineRead(q) ==
    /\ race.path[q].pc = "engine_read"
    /\ race' = [race EXCEPT !.path[q].snap = Val(save_account_read(store)),
                            !.path[q].pc = "engine_write"]
    /\ UNCHANGED <<store, issued>>
    /\ UNCHANGED race_frame

RaceEngineWrite(q) ==
    /\ race.path[q].pc = "engine_write"
    /\ store' = Val(save_account_write(race.path[q].updated, race.path[q].snap))
    /\ race' = [race EXCEPT !.path[q].pc = "done"]
    /\ UNCHANGED issued
    /\ UNCHANGED race_frame

\* oauth.rs line 231, storage.rs line 155
RaceAuthRead ==
    /\ race.authz.pc = "read"
    /\ race' = [race EXCEPT !.authz.snap = Val(save_account_read(store)),
                            !.authz.pc = "write"]
    /\ UNCHANGED <<store, issued>>
    /\ UNCHANGED race_frame

\* storage.rs lines 157-168, oauth.rs lines 233-236: the file is written
\* and authenticate returns the account
RaceAuthWrite ==
    /\ race.authz.pc = "write"
    /\ store' = Val(save_account_write(race.authz.account, race.authz.snap))
    /\ race' = [race EXCEPT !.authz.pc = "done",
                            !.persisted = @ \cup {race.authz.account.email}]
    /\ UNCHANGED issued
    /\ UNCHANGED race_frame

RaceInitialStores ==
    {<<InitialAccount(-3600, FALSE)>>, <<InitialAccount(-3600, FALSE), OtherAccount>>}

InitRace ==
    /\ now = 0
    /\ ticks = 0
    /\ tm_account = OtherAccount
    /\ tm_pc = "idle"
    /\ tm_op = "none"
    /\ store \in RaceInitialStores
    /\ issued = 0
    /\ call = NoCall(tm_account, store)
    /\ unsaved = NoUnsaved
    /\ auth = AuthIdle
    /\ sync = SyncIdle
    /\ crypto = CryptoIdle
    /\ ondemand = OndemandIdle
    /\ gmail = GmailIdle
    /\ engine = EngineIdle
    /\ race \in {Race_start(store, email, with_auth) :
                    email \in {"a@gmail.com", "n@gmail.com"}, with_auth \in BOOLEAN}

NextRace ==
    \/ \E q \in SyncPaths :
          \/ RaceCycle(q)
          \/ RaceExchange(q)
          \/ RaceTokenRead(q)
          \/ RaceTokenWrite(q)
          \/ RaceEngineRead(q)
          \/ RaceEngineWrite(q)
    \/ RaceAuthRead
    \/ RaceAuthWrite

SpecRace == InitRace /\ [][NextRace]_vars

\* the emails of a list, in order
emails_of(file) == [i \in DOMAIN file |-> file[i].email]

C33_PersistedAccountStays ==
    \A e \in race.persisted : \E i \in DOMAIN store : store[i].email = e

====
